---- MODULE Spec2Model ----
(***************************************************************************)
(* Pagination engine of baton-percipio: token codec, total-count header    *)
(* validation and the per-page List handlers of the users (simple) and     *)
(* courses (stateful) collections.                                         *)
(*                                                                         *)
(* Strings that the code converts (the x-total-count header, the JSON     *)
(* pagination token) are modelled by their structure: a header value is a *)
(* sequence of characters that Atoi scans, a token is the JSON text       *)
(* "" / malformed / object with an ordered list of members.  Session ids  *)
(* are opaque valid-UTF-8 texts and are modelled as TLA+ strings.         *)
(***************************************************************************)
EXTENDS Integers, Sequences, FiniteSets, TLC

\* ----------------------------------------------------------------------
\* Program constants
\* ----------------------------------------------------------------------
PageSizeDefault == 1000

MaxPagesPerSync == 100

TotalCountCeiling == 1000000

EstimateHeadroom == 1000

\* ----------------------------------------------------------------------
\* Bounds of the model
\* ----------------------------------------------------------------------
\* largest explicit page-size hint (pToken.Size) besides 0 (= default)
MaxSizeHint == 2

\* the pure-function inputs take page indices 0..MaxLowPage and the
\* indices within MaxNearCeiling of MaxPagesPerSync
MaxLowPage == 1

MaxNearCeiling == 2

\* largest explicit page-size hint of a sweep besides 0 (= default)
MaxSweepSize == 1

\* a sweep is cut off after this many page requests (above the ceiling,
\* so that a sweep that ignores the ceiling is observed)
MaxRequests == 102

\* ----------------------------------------------------------------------
\* Go integer division (truncates toward zero); b # 0
\* ----------------------------------------------------------------------
GoDiv(a, b) ==
    LET abs(x) == IF x < 0 THEN -x ELSE x
        q == abs(a) \div abs(b)
    IN  IF (a < 0) = (b < 0) THEN q ELSE -q

\* ----------------------------------------------------------------------
\* JSON text of a pagination token
\* ----------------------------------------------------------------------
\* a JSON value: a number or a string
JNum(n) == [t |-> "num", n |-> n, s |-> ""]

JStr(s) == [t |-> "str", n |-> 0, s |-> s]

\* one member  "k": v  of a JSON object
Member(k, v) == [k |-> k, v |-> v]

\* the token string ""
EmptyText == [kind |-> "empty", members |-> <<>>]

\* a token string that is not valid JSON, e.g. `{invalid json}`
InvalidText == [kind |-> "invalid", members |-> <<>>]

\* a token string holding a JSON object with the members in written order
ObjectText(ms) == [kind |-> "object", members |-> ms]

\* json.Marshal(Pagination{Offset, PagingRequestId}): fields in struct order
MarshalPagination(offset, pagingRequestId) ==
    ObjectText(<< Member("pagingRequestId", JStr(pagingRequestId)),
                  Member("offset", JNum(offset)) >>)

\* variant: the struct tag of Offset is misspelt
MarshalSimplePagination_TagTypo(offset) ==
    ObjectText(<< Member("offest", JNum(offset)) >>)

\* json.Marshal(SimplePagination{Offset})
MarshalSimplePagination(offset) ==
    ObjectText(<< Member("offset", JNum(offset)) >>)

\* json.Unmarshal of an object's members into a struct value: members are
\* applied in order (a later duplicate overwrites), unknown keys are
\* skipped, a value of the wrong JSON type is an UnmarshalTypeError.
RECURSIVE DecodeMembers(_, _, _)
DecodeMembers(ms, acc, withId) ==
    IF ms = <<>> THEN acc
    ELSE LET m == Head(ms)
             acc2 ==
                 IF m.k = "offset"
                 THEN IF m.v.t = "num" THEN [acc EXCEPT !.Offset = m.v.n]
                      ELSE [acc EXCEPT !.err = TRUE]
                 ELSE IF withId /\ m.k = "pagingRequestId"
                 THEN IF m.v.t = "str"
                      THEN [acc EXCEPT !.PagingRequestId = m.v.s]
                      ELSE [acc EXCEPT !.err = TRUE]
                 ELSE acc
         IN  DecodeMembers(Tail(ms), acc2, withId)

ZeroPagination == [Offset |-> 0, PagingRequestId |-> "", err |-> FALSE]

\* variant: the target struct has no PagingRequestId field
UnmarshalPagination_NoId(text) ==
    IF text.kind # "object" THEN [ZeroPagination EXCEPT !.err = TRUE]
    ELSE DecodeMembers(text.members, ZeroPagination, FALSE)

\* json.Unmarshal([]byte(text), &Pagination{})
UnmarshalPagination(text) ==
    IF text.kind # "object" THEN [ZeroPagination EXCEPT !.err = TRUE]
    ELSE DecodeMembers(text.members, ZeroPagination, TRUE)

\* json.Unmarshal([]byte(text), &SimplePagination{})
UnmarshalSimplePagination(text) ==
    IF text.kind # "object" THEN [ZeroPagination EXCEPT !.err = TRUE]
    ELSE DecodeMembers(text.members, ZeroPagination, FALSE)

\* ----------------------------------------------------------------------
\* pagination.Token as handed to List: nil, or {Token, Size}
\* ----------------------------------------------------------------------
NilToken == [nil |-> TRUE, Token |-> EmptyText, Size |-> 0]

PToken(text, size) == [nil |-> FALSE, Token |-> text, Size |-> size]

\* ----------------------------------------------------------------------
\* Token parsers
\* ----------------------------------------------------------------------
ParseResult(offset, limit, id, err) ==
    [offset |-> offset, limit |-> limit, pagingRequestId |-> id, err |-> err]

ParsePaginationToken(pToken) ==
    IF pToken.nil THEN ParseResult(0, PageSizeDefault, "", FALSE)
    ELSE LET limit  == IF pToken.Size > 0 THEN pToken.Size ELSE PageSizeDefault
             parsed == UnmarshalPagination(pToken.Token)
         IN  IF pToken.Token # EmptyText
             THEN IF parsed.err THEN ParseResult(0, 0, "", TRUE)
                  ELSE ParseResult(parsed.Offset, limit,
                                   parsed.PagingRequestId, FALSE)
             ELSE ParseResult(0, limit, "", FALSE)

\* variant: the error return keeps the limit computed so far
ParseSimplePaginationToken_LimitOnError(pToken) ==
    IF pToken.nil THEN ParseResult(0, PageSizeDefault, "", FALSE)
    ELSE LET limit  == IF pToken.Size > 0 THEN pToken.Size ELSE PageSizeDefault
             parsed == UnmarshalSimplePagination(pToken.Token)
         IN  IF pToken.Token # EmptyText
             THEN IF parsed.err THEN ParseResult(0, limit, "", TRUE)
                  ELSE ParseResult(parsed.Offset, limit, "", FALSE)
             ELSE ParseResult(0, limit, "", FALSE)

ParseSimplePaginationToken(pToken) ==
    IF pToken.nil THEN ParseResult(0, PageSizeDefault, "", FALSE)
    ELSE LET limit  == IF pToken.Size > 0 THEN pToken.Size ELSE PageSizeDefault
             parsed == UnmarshalSimplePagination(pToken.Token)
         IN  IF pToken.Token # EmptyText
             THEN IF parsed.err THEN ParseResult(0, 0, "", TRUE)
                  ELSE ParseResult(parsed.Offset, limit, "", FALSE)
             ELSE ParseResult(0, limit, "", FALSE)

\* ----------------------------------------------------------------------
\* Next-token generators (limit # 0: the callers pass the parser's limit)
\* ----------------------------------------------------------------------
\* variant: no page-count ceiling
GetNextToken_NoCeiling(offset, limit, total, pagingRequestId) ==
    LET nextOffset == offset + limit
    IN  IF nextOffset >= total THEN EmptyText
        ELSE MarshalPagination(nextOffset, pagingRequestId)

GetNextToken(offset, limit, total, pagingRequestId) ==
    LET nextOffset  == offset + limit
        currentPage == GoDiv(offset, limit) + 1
    IN  IF currentPage >= MaxPagesPerSync THEN EmptyText
        ELSE IF nextOffset >= total THEN EmptyText
        ELSE MarshalPagination(nextOffset, pagingRequestId)

\* variant: the ceiling compares with > instead of >=
GetSimpleNextToken_CeilingOffByOne(offset, limit, total) ==
    LET nextOffset  == offset + limit
        currentPage == GoDiv(offset, limit) + 1
    IN  IF currentPage > MaxPagesPerSync THEN EmptyText
        ELSE IF nextOffset >= total THEN EmptyText
        ELSE MarshalSimplePagination(nextOffset)

\* variant: the next token repeats the offset of the page just fetched
GetSimpleNextToken_Stuck(offset, limit, total) ==
    LET nextOffset  == offset
        currentPage == GoDiv(offset, limit) + 1
    IN  IF currentPage >= MaxPagesPerSync THEN EmptyText
        ELSE IF nextOffset + limit >= total THEN EmptyText
        ELSE MarshalSimplePagination(nextOffset)

GetSimpleNextToken(offset, limit, total) ==
    LET nextOffset  == offset + limit
        currentPage == GoDiv(offset, limit) + 1
    IN  IF currentPage >= MaxPagesPerSync THEN EmptyText
        ELSE IF nextOffset >= total THEN EmptyText
        ELSE MarshalSimplePagination(nextOffset)

\* variant: the total check compares with > instead of >=
GetUserNextToken_StrictTotal(offset, limit, total) ==
    LET nextOffset == offset + limit
    IN  IF nextOffset > total THEN EmptyText
        ELSE MarshalSimplePagination(nextOffset)

\* pagination.go variant of the users generator
GetUserNextToken(offset, limit, total) ==
    LET nextOffset == offset + limit
    IN  IF nextOffset >= total THEN EmptyText
        ELSE MarshalSimplePagination(nextOffset)

\* ----------------------------------------------------------------------
\* x-total-count header
\* ----------------------------------------------------------------------
Digits == {"0", "1", "2", "3", "4", "5", "6", "7", "8", "9"}

DigitVal(c) ==
    CASE c = "0" -> 0 [] c = "1" -> 1 [] c = "2" -> 2 [] c = "3" -> 3
      [] c = "4" -> 4 [] c = "5" -> 5 [] c = "6" -> 6 [] c = "7" -> 7
      [] c = "8" -> 8 [] c = "9" -> 9

RECURSIVE DecimalValue(_, _)
DecimalValue(s, acc) ==
    IF s = <<>> THEN acc
    ELSE DecimalValue(Tail(s), acc * 10 + DigitVal(Head(s)))

\* strconv.Atoi on a character sequence: optional sign, then one or more
\* decimal digits and nothing else
Atoi(s) ==
    LET signed == s # <<>> /\ Head(s) \in {"+", "-"}
        body   == IF signed THEN Tail(s) ELSE s
        ok     == body # <<>> /\ \A i \in 1..Len(body) : body[i] \in Digits
        mag    == IF ok THEN DecimalValue(body, 0) ELSE 0
    IN  [err |-> ~ok,
         n   |-> IF ~ok THEN 0
                 ELSE IF signed /\ Head(s) = "-" THEN -mag ELSE mag]

CountResult(total, err) == [total |-> total, err |-> err]

\* variant: the sanity check refuses the ceiling value itself
getTotalCount_InclusiveCeiling(totalString) ==
    IF totalString = <<>> THEN CountResult(0, "missing")
    ELSE LET a == Atoi(totalString)
         IN  IF a.err THEN CountResult(0, "invalid")
             ELSE IF a.n >= TotalCountCeiling
             THEN CountResult(0, "suspicious")
             ELSE CountResult(a.n, "none")

\* variant: a negative header value is refused
getTotalCount_RejectsNegative(totalString) ==
    IF totalString = <<>> THEN CountResult(0, "missing")
    ELSE LET a == Atoi(totalString)
         IN  IF a.err THEN CountResult(0, "invalid")
             ELSE IF a.n > TotalCountCeiling \/ a.n < 0
             THEN CountResult(0, "suspicious")
             ELSE CountResult(a.n, "none")

\* totalString is response.Header.Get("x-total-count"): <<>> when absent
getTotalCount(totalString) ==
    IF totalString = <<>> THEN CountResult(0, "missing")
    ELSE LET a == Atoi(totalString)
         IN  IF a.err THEN CountResult(0, "invalid")
             ELSE IF a.n > TotalCountCeiling
             THEN CountResult(0, "suspicious")
             ELSE CountResult(a.n, "none")

\* variant: a full page is taken for the last page
getTotalCountForContentDiscovery_FullPageEnds(totalString, coursesReturned, offset, limit) ==
    IF totalString = <<>>
    THEN IF coursesReturned <= limit
         THEN CountResult(offset + coursesReturned, "none")
         ELSE CountResult(offset + coursesReturned + EstimateHeadroom, "none")
    ELSE LET a == Atoi(totalString)
         IN  IF a.err THEN CountResult(0, "invalid")
             ELSE IF a.n > TotalCountCeiling
             THEN CountResult(0, "suspicious")
             ELSE CountResult(a.n, "none")

\* variant: without a header the estimate always adds the headroom
getTotalCountForContentDiscovery_AlwaysHeadroom(totalString, coursesReturned, offset, limit) ==
    IF totalString = <<>>
    THEN CountResult(offset + coursesReturned + EstimateHeadroom, "none")
    ELSE LET a == Atoi(totalString)
         IN  IF a.err THEN CountResult(0, "invalid")
             ELSE IF a.n > TotalCountCeiling
             THEN CountResult(0, "suspicious")
             ELSE CountResult(a.n, "none")

getTotalCountForContentDiscovery(totalString, coursesReturned, offset, limit) ==
    IF totalString = <<>>
    THEN IF coursesReturned < limit
         THEN CountResult(offset + coursesReturned, "none")
         ELSE CountResult(offset + coursesReturned + EstimateHeadroom, "none")
    ELSE LET a == Atoi(totalString)
         IN  IF a.err THEN CountResult(0, "invalid")
             ELSE IF a.n > TotalCountCeiling
             THEN CountResult(0, "suspicious")
             ELSE CountResult(a.n, "none")

\* ----------------------------------------------------------------------
\* State
\* ----------------------------------------------------------------------
VARIABLES
    op,        \* pure-function harness: the function applied last
    args,      \* pure-function harness: its inputs
    ret,       \* pure-function harness: its result
    back,      \* pure-function harness: the parse of a produced token
    coll,      \* sweep: "users" or "courses"
    size,      \* sweep: pToken.Size, fixed for the sweep
    tok,       \* sweep: the token string the caller holds for the next List
    phase,     \* sweep: "running", "done" (empty token) or "aborted" (error)
    reqCount,  \* sweep: page requests handed to the transport so far
    last,      \* sweep: request, response and result of the last List call
    srvTotal,  \* served sweep: the number of users the server holds
    reqs,      \* served sweep: the offsets requested so far, in order
    ReportStatus,   \* Client.ReportStatus: the report job's id and status
    StatusesStore,  \* Client.StatusesStore: content id -> user id -> status
    calls,     \* report: where each Grants caller stands in its call
    posts,     \* report: report-generation POSTs sent, and those answered
    gets,      \* report: report GETs sent so far
    lastPoll,  \* report: body and outcome of the last poll attempt
    done       \* report: what the Grants call that returned last returned

fnVars == <<op, args, ret, back>>

swVars == <<coll, size, tok, phase, reqCount, last>>

wbVars == <<srvTotal, reqs>>

rpVars == <<ReportStatus, StatusesStore, calls, posts, gets, lastPoll, done>>

vars == <<op, args, ret, back, coll, size, tok, phase, reqCount, last,
          srvTotal, reqs,
          ReportStatus, StatusesStore, calls, posts, gets, lastPoll, done>>

\* ----------------------------------------------------------------------
\* Input sets
\* ----------------------------------------------------------------------
\* page sizes as the parsers can return them
Limits == (1..MaxSizeHint) \cup {PageSizeDefault}

Pages ==
    (0..MaxLowPage)
        \cup ((MaxPagesPerSync - MaxNearCeiling)..(MaxPagesPerSync + MaxNearCeiling))

OffsetsFor(limit) ==
    {p * limit + r : p \in Pages, r \in {0, limit - 1}} \cup {-1}

TotalsFor(offset, limit) ==
    {-1, 0, 1, offset, offset + limit - 1, offset + limit, offset + limit + 1,
     TotalCountCeiling, 2 * TotalCountCeiling}

SessionIds == {"", "sid-1", "sid-2"}

TokenTexts ==
    { EmptyText,
      InvalidText,
      ObjectText(<<>>),
      ObjectText(<<Member("pagingRequestId", JStr("test-uuid-123")),
                   Member("offset", JNum(1000))>>),
      ObjectText(<<Member("pagingRequestId", JStr("")),
                   Member("offset", JNum(2000))>>),
      ObjectText(<<Member("offset", JNum(500))>>),
      ObjectText(<<Member("offset", JNum(50000))>>),
      ObjectText(<<Member("offset", JNum(500)), Member("limit", JNum(7)),
                   Member("size", JNum(8)), Member("max", JNum(9))>>),
      ObjectText(<<Member("offset", JNum(1)), Member("offset", JNum(3))>>),
      ObjectText(<<Member("offset", JStr("abc"))>>),
      ObjectText(<<Member("pagingRequestId", JNum(5)),
                   Member("offset", JNum(1000))>>) }

SizeHints == (-1..MaxSizeHint) \cup {250, 500, PageSizeDefault}

PTokens == {NilToken} \cup {PToken(t, s) : t \in TokenTexts, s \in SizeHints}

\* header values, with the integer a decimal reader gives them
NumericHeaders ==
    { [s |-> <<"0">>, n |-> 0],
      [s |-> <<"3">>, n |-> 3],
      [s |-> <<"1", "5", "0">>, n |-> 150],
      [s |-> <<"5", "0", "0">>, n |-> 500],
      [s |-> <<"+", "7">>, n |-> 7],
      [s |-> <<"-", "5">>, n |-> -5],
      [s |-> <<"0", "0", "4", "2">>, n |-> 42],
      [s |-> <<"9", "9", "9", "9", "9", "9">>, n |-> 999999],
      [s |-> <<"1", "0", "0", "0", "0", "0", "0">>, n |-> 1000000],
      [s |-> <<"1", "0", "0", "0", "0", "0", "1">>, n |-> 1000001],
      [s |-> <<"2", "0", "0", "0", "0", "0", "0">>, n |-> 2000000],
      [s |-> <<"5", "0", "0", "0", "0", "0", "0">>, n |-> 5000000] }

NonNumericHeaders ==
    { <<"n", "o", "t", "-", "a", "-", "n", "u", "m", "b", "e", "r">>,
      <<"i", "n", "v", "a", "l", "i", "d">>,
      <<"1", "2", "a">>,
      <<"-">>,
      <<" ", "5">>,
      <<"1", ".", "5">>,
      <<"1", "e", "3">> }

HeaderStrings == {<<>>} \cup {h.s : h \in NumericHeaders} \cup NonNumericHeaders

NoArgs == [offset |-> 0, limit |-> 0, total |-> 0, pagingRequestId |-> "",
           pToken |-> NilToken, header |-> <<>>, items |-> 0]

NoRet == [token |-> EmptyText, parsed |-> ParseResult(0, 0, "", FALSE),
          count |-> CountResult(0, "none")]

NoBack == [done |-> FALSE, parsed |-> ParseResult(0, 0, "", FALSE)]

NoCall == [offset |-> 0, limit |-> 0, reqId |-> "", sent |-> FALSE,
           resp |-> "none", header |-> <<>>, respId |-> "", items |-> 0,
           total |-> 0, err |-> "none", resources |-> -1, next |-> EmptyText]

IdleSweep ==
    /\ coll = "none"
    /\ size = 0
    /\ tok = EmptyText
    /\ phase = "idle"
    /\ reqCount = 0
    /\ last = NoCall

IdleServed ==
    /\ srvTotal = 0
    /\ reqs = <<>>

\* a map with no keys
EmptyMap == [k \in {} |-> ""]

\* var ReportStatus of a new client: no job id, no status
ZeroReportStatus == [Id |-> "", Status |-> ""]

Callers == {"g1", "g2"}

\* a caller that is not inside Grants
NotCalling == [pc |-> "idle", resource |-> "", i |-> 0, pass |-> "none",
               posted |-> FALSE, before |-> ZeroReportStatus]

\* a response body: its leading white space, its first byte after that
\* ("" when there is none), how encoding/json takes it ("ok", "syntax"
\* for text that is not JSON, "type" for JSON of the wrong shape), and
\* what it holds: a status member, or report rows
Body(ws, first, decode, hasStatus, status, rows) ==
    [ws |-> ws, first |-> first, decode |-> decode, hasStatus |-> hasStatus,
     status |-> status, rows |-> rows]

NoBody == Body(0, "", "syntax", FALSE, "", <<>>)

NoPoll == [kind |-> "none", read |-> "none", body |-> NoBody,
           outcome |-> "none", err |-> "none", caller |-> "", i |-> 0]

NoDone == [n |-> 0, caller |-> "", resource |-> "", err |-> "none",
           grants |-> EmptyMap, polled |-> 0, pass |-> "none",
           posted |-> FALSE, before |-> ZeroReportStatus]

IdleReport ==
    /\ ReportStatus = ZeroReportStatus
    /\ StatusesStore = EmptyMap
    /\ calls = [g \in Callers |-> NotCalling]
    /\ posts = [sent |-> 0, ok |-> 0]
    /\ gets = 0
    /\ lastPoll = NoPoll
    /\ done = NoDone

IdleFn ==
    /\ op = "none"
    /\ args = NoArgs
    /\ ret = NoRet
    /\ back = NoBack

\* ----------------------------------------------------------------------
\* Token generators and their inverse applied to drawn inputs
\* ----------------------------------------------------------------------
InitTok ==
    /\ op = "none"
    /\ \E limit \in Limits :
         \E offset \in OffsetsFor(limit) :
           \E total \in TotalsFor(offset, limit) :
             \E id \in SessionIds :
               args = [NoArgs EXCEPT !.offset = offset, !.limit = limit,
                                     !.total = total, !.pagingRequestId = id]
    /\ ret = NoRet
    /\ back = NoBack
    /\ IdleSweep
    /\ IdleServed
    /\ IdleReport

CallGetNextToken ==
    /\ op = "none"
    /\ op' = "GetNextToken"
    /\ ret' = [ret EXCEPT !.token =
                 GetNextToken(args.offset, args.limit, args.total,
                              args.pagingRequestId)]
    /\ UNCHANGED <<args, back>>
    /\ UNCHANGED <<swVars, wbVars, rpVars>>

CallGetSimpleNextToken ==
    /\ op = "none"
    /\ op' = "GetSimpleNextToken"
    /\ ret' = [ret EXCEPT !.token =
                 GetSimpleNextToken(args.offset, args.limit, args.total)]
    /\ UNCHANGED <<args, back>>
    /\ UNCHANGED <<swVars, wbVars, rpVars>>

CallGetUserNextToken ==
    /\ op = "none"
    /\ op' = "GetUserNextToken"
    /\ ret' = [ret EXCEPT !.token =
                 GetUserNextToken(args.offset, args.limit, args.total)]
    /\ UNCHANGED <<args, back>>
    /\ UNCHANGED <<swVars, wbVars, rpVars>>

\* the produced token is handed back with Size = the page size in use
ParseBackStateful ==
    /\ op = "GetNextToken"
    /\ ret.token # EmptyText
    /\ ~back.done
    /\ back' = [done |-> TRUE,
                parsed |-> ParsePaginationToken(PToken(ret.token, args.limit))]
    /\ UNCHANGED <<op, args, ret>>
    /\ UNCHANGED <<swVars, wbVars, rpVars>>

ParseBackSimple ==
    /\ op = "GetSimpleNextToken"
    /\ ret.token # EmptyText
    /\ ~back.done
    /\ back' = [done |-> TRUE,
                parsed |-> ParseSimplePaginationToken(PToken(ret.token, args.limit))]
    /\ UNCHANGED <<op, args, ret>>
    /\ UNCHANGED <<swVars, wbVars, rpVars>>

NextTok ==
    \/ CallGetNextToken
    \/ CallGetSimpleNextToken
    \/ CallGetUserNextToken
    \/ ParseBackStateful
    \/ ParseBackSimple

SpecTok == InitTok /\ [][NextTok]_vars

\* ----------------------------------------------------------------------
\* Token parsers applied to drawn tokens
\* ----------------------------------------------------------------------
InitParse ==
    /\ op = "none"
    /\ \E p \in PTokens : args = [NoArgs EXCEPT !.pToken = p]
    /\ ret = NoRet
    /\ back = NoBack
    /\ IdleSweep
    /\ IdleServed
    /\ IdleReport

CallParsePaginationToken ==
    /\ op = "none"
    /\ op' = "ParsePaginationToken"
    /\ ret' = [ret EXCEPT !.parsed = ParsePaginationToken(args.pToken)]
    /\ UNCHANGED <<args, back>>
    /\ UNCHANGED <<swVars, wbVars, rpVars>>

CallParseSimplePaginationToken ==
    /\ op = "none"
    /\ op' = "ParseSimplePaginationToken"
    /\ ret' = [ret EXCEPT !.parsed = ParseSimplePaginationToken(args.pToken)]
    /\ UNCHANGED <<args, back>>
    /\ UNCHANGED <<swVars, wbVars, rpVars>>

NextParse ==
    \/ CallParsePaginationToken
    \/ CallParseSimplePaginationToken

SpecParse == InitParse /\ [][NextParse]_vars

\* ----------------------------------------------------------------------
\* Header validators applied to drawn responses
\* ----------------------------------------------------------------------
HdrOffsets == {0, PageSizeDefault, 2 * PageSizeDefault, TotalCountCeiling}

HdrLimits == Limits \cup {500}

HdrItemsFor(limit) == {0, 1, limit - 1, limit, limit + 1, 750}

InitHdr ==
    /\ op = "none"
    /\ \E h \in HeaderStrings :
         \E limit \in HdrLimits :
           \E offset \in HdrOffsets :
             \E items \in HdrItemsFor(limit) :
               args = [NoArgs EXCEPT !.header = h, !.limit = limit,
                                     !.offset = offset, !.items = items]
    /\ ret = NoRet
    /\ back = NoBack
    /\ IdleSweep
    /\ IdleServed
    /\ IdleReport

CallGetTotalCount ==
    /\ op = "none"
    /\ op' = "getTotalCount"
    /\ ret' = [ret EXCEPT !.count = getTotalCount(args.header)]
    /\ UNCHANGED <<args, back>>
    /\ UNCHANGED <<swVars, wbVars, rpVars>>

CallGetTotalCountForContentDiscovery ==
    /\ op = "none"
    /\ op' = "getTotalCountForContentDiscovery"
    /\ ret' = [ret EXCEPT !.count =
                 getTotalCountForContentDiscovery(args.header, args.items,
                                                  args.offset, args.limit)]
    /\ UNCHANGED <<args, back>>
    /\ UNCHANGED <<swVars, wbVars, rpVars>>

NextHdr ==
    \/ CallGetTotalCount
    \/ CallGetTotalCountForContentDiscovery

SpecHdr == InitHdr /\ [][NextHdr]_vars

\* ----------------------------------------------------------------------
\* One page fetch: the client methods and the List handlers
\* ----------------------------------------------------------------------
\* what the transport hands back for one GET: an error (network failure,
\* non-2xx status, undecodable body), or the response headers
\* x-total-count (<<>> = absent) and x-paging-request-id ("" = absent)
\* together with the number of items decoded from the body
TransportError == [kind |-> "error", header |-> <<>>, respId |-> "", items |-> 0]

Response(header, respId, items) ==
    [kind |-> "ok", header |-> header, respId |-> respId, items |-> items]

\* a nil slice
Nil == -1

FetchResult(items, id, total, counted, err) ==
    [items |-> items, pagingRequestId |-> id, total |-> total,
     counted |-> counted, err |-> err]

\* no request was made
NoFetch == FetchResult(Nil, "", 0, 0, "none")

\* Client.GetUsers; counted is the total as the header step computed it
GetUsers(offset, limit, resp) ==
    IF resp.kind = "error" THEN FetchResult(Nil, "", 0, 0, "transport")
    ELSE LET c == getTotalCount(resp.header)
         IN  IF c.err # "none" THEN FetchResult(Nil, "", 0, 0, c.err)
             ELSE FetchResult(resp.items, "", c.total, c.total, "none")

\* variant: an empty page below the total is returned as a success
GetCourses_NoEmptyCheck(offset, limit, pagingRequestId, resp) ==
    IF resp.kind = "error" THEN FetchResult(Nil, "", 0, 0, "transport")
    ELSE LET newPagingRequestId == resp.respId
             c == getTotalCountForContentDiscovery(resp.header, resp.items,
                                                   offset, limit)
         IN  IF c.err # "none" THEN FetchResult(Nil, "", 0, 0, c.err)
             ELSE IF offset > 0 /\ pagingRequestId # "" /\ newPagingRequestId = ""
             THEN FetchResult(Nil, "", 0, c.total, "sessionLost")
             ELSE FetchResult(resp.items, newPagingRequestId, c.total,
                              c.total, "none")

\* variant: the session check does not look at the request's session id
GetCourses_NoRequestIdGuard(offset, limit, pagingRequestId, resp) ==
    IF resp.kind = "error" THEN FetchResult(Nil, "", 0, 0, "transport")
    ELSE LET newPagingRequestId == resp.respId
             c == getTotalCountForContentDiscovery(resp.header, resp.items,
                                                   offset, limit)
         IN  IF c.err # "none" THEN FetchResult(Nil, "", 0, 0, c.err)
             ELSE IF offset > 0 /\ newPagingRequestId = ""
             THEN FetchResult(Nil, "", 0, c.total, "sessionLost")
             ELSE IF resp.items = 0 /\ offset < c.total
             THEN FetchResult(Nil, "", 0, c.total, "prematureEnd")
             ELSE FetchResult(resp.items, newPagingRequestId, c.total,
                              c.total, "none")

\* variant: an empty page at the total itself is taken for a premature end
GetCourses_EmptyAtTotalFails(offset, limit, pagingRequestId, resp) ==
    IF resp.kind = "error" THEN FetchResult(Nil, "", 0, 0, "transport")
    ELSE LET newPagingRequestId == resp.respId
             c == getTotalCountForContentDiscovery(resp.header, resp.items,
                                                   offset, limit)
         IN  IF c.err # "none" THEN FetchResult(Nil, "", 0, 0, c.err)
             ELSE IF offset > 0 /\ pagingRequestId # "" /\ newPagingRequestId = ""
             THEN FetchResult(Nil, "", 0, c.total, "sessionLost")
             ELSE IF resp.items = 0 /\ offset <= c.total
             THEN FetchResult(Nil, "", 0, c.total, "prematureEnd")
             ELSE FetchResult(resp.items, newPagingRequestId, c.total,
                              c.total, "none")

\* variant: an absent x-total-count header fails the courses fetch too
GetCourses_MissingFails(offset, limit, pagingRequestId, resp) ==
    IF resp.kind = "error" THEN FetchResult(Nil, "", 0, 0, "transport")
    ELSE LET newPagingRequestId == resp.respId
             c == getTotalCount(resp.header)
         IN  IF c.err # "none" THEN FetchResult(Nil, "", 0, 0, c.err)
             ELSE IF offset > 0 /\ pagingRequestId # "" /\ newPagingRequestId = ""
             THEN FetchResult(Nil, "", 0, c.total, "sessionLost")
             ELSE IF resp.items = 0 /\ offset < c.total
             THEN FetchResult(Nil, "", 0, c.total, "prematureEnd")
             ELSE FetchResult(resp.items, newPagingRequestId, c.total,
                              c.total, "none")

\* Client.GetCourses
GetCourses(offset, limit, pagingRequestId, resp) ==
    IF resp.kind = "error" THEN FetchResult(Nil, "", 0, 0, "transport")
    ELSE LET newPagingRequestId == resp.respId
             c == getTotalCountForContentDiscovery(resp.header, resp.items,
                                                   offset, limit)
         IN  IF c.err # "none" THEN FetchResult(Nil, "", 0, 0, c.err)
             ELSE IF offset > 0 /\ pagingRequestId # "" /\ newPagingRequestId = ""
             THEN FetchResult(Nil, "", 0, c.total, "sessionLost")
             ELSE IF resp.items = 0 /\ offset < c.total
             THEN FetchResult(Nil, "", 0, c.total, "prematureEnd")
             ELSE FetchResult(resp.items, newPagingRequestId, c.total,
                              c.total, "none")

\* the record kept of one List call
Call(parsed, sent, resp, fetch, err, resources, next) ==
    [offset |-> parsed.offset, limit |-> parsed.limit,
     reqId |-> parsed.pagingRequestId, sent |-> sent,
     resp |-> resp.kind, header |-> resp.header, respId |-> resp.respId,
     items |-> resp.items, total |-> fetch.counted, err |-> err,
     resources |-> resources, next |-> next]

\* how the items of the page turn into resources: all of them, all but one
\* (an INACTIVE or filtered-out course is skipped), or a conversion error
Conversions(collection, items) ==
    IF items <= 0 THEN {"all"}
    ELSE IF collection = "courses" THEN {"all", "skip", "fail"}
    ELSE {"all", "fail"}

\* variant: the page is requested before the decode error is looked at
CoursesListCall_FetchesFirst(pToken, resp, conv) ==
    LET parsed == ParsePaginationToken(pToken)
        fetch  == GetCourses(parsed.offset, parsed.limit,
                             parsed.pagingRequestId, resp)
    IN  IF parsed.err
        THEN Call(parsed, TRUE, resp, fetch, "decode", Nil, EmptyText)
        ELSE IF fetch.err # "none"
        THEN Call(parsed, TRUE, resp, fetch, fetch.err, Nil, EmptyText)
        ELSE IF conv = "fail"
        THEN Call(parsed, TRUE, resp, fetch, "resource", Nil, EmptyText)
        ELSE Call(parsed, TRUE, resp, fetch, "none",
                  IF conv = "skip" THEN fetch.items - 1 ELSE fetch.items,
                  GetNextToken(parsed.offset, parsed.limit, fetch.total,
                               fetch.pagingRequestId))

\* courseBuilder.List
CoursesListCall(pToken, resp, conv) ==
    LET parsed == ParsePaginationToken(pToken)
        fetch  == GetCourses(parsed.offset, parsed.limit,
                             parsed.pagingRequestId, resp)
    IN  IF parsed.err
        THEN Call(parsed, FALSE, TransportError, NoFetch, "decode", Nil, EmptyText)
        ELSE IF fetch.err # "none"
        THEN Call(parsed, TRUE, resp, fetch, fetch.err, Nil, EmptyText)
        ELSE IF conv = "fail"
        THEN Call(parsed, TRUE, resp, fetch, "resource", Nil, EmptyText)
        ELSE Call(parsed, TRUE, resp, fetch, "none",
                  IF conv = "skip" THEN fetch.items - 1 ELSE fetch.items,
                  GetNextToken(parsed.offset, parsed.limit, fetch.total,
                               fetch.pagingRequestId))

\* variant: the next token is computed from the items of the page, not
\* from the total the header reports
UsersListCall_TotalFromItems(pToken, resp, conv) ==
    LET parsed == ParseSimplePaginationToken(pToken)
        fetch  == GetUsers(parsed.offset, parsed.limit, resp)
    IN  IF parsed.err
        THEN Call(parsed, FALSE, TransportError, NoFetch, "decode", Nil, EmptyText)
        ELSE IF fetch.err # "none"
        THEN Call(parsed, TRUE, resp, fetch, fetch.err, Nil, EmptyText)
        ELSE IF conv = "fail"
        THEN Call(parsed, TRUE, resp, fetch, "resource", Nil, EmptyText)
        ELSE Call(parsed, TRUE, resp, fetch, "none", fetch.items,
                  GetSimpleNextToken(parsed.offset, parsed.limit, fetch.items))

\* userBuilder.List
UsersListCall(pToken, resp, conv) ==
    LET parsed == ParseSimplePaginationToken(pToken)
        fetch  == GetUsers(parsed.offset, parsed.limit, resp)
    IN  IF parsed.err
        THEN Call(parsed, FALSE, TransportError, NoFetch, "decode", Nil, EmptyText)
        ELSE IF fetch.err # "none"
        THEN Call(parsed, TRUE, resp, fetch, fetch.err, Nil, EmptyText)
        ELSE IF conv = "fail"
        THEN Call(parsed, TRUE, resp, fetch, "resource", Nil, EmptyText)
        ELSE Call(parsed, TRUE, resp, fetch, "none", fetch.items,
                  GetSimpleNextToken(parsed.offset, parsed.limit, fetch.total))

\* ----------------------------------------------------------------------
\* A sweep: the caller starts from the empty token, keeps one Size, and
\* feeds each returned token into the next List call; the server answers
\* each request as it likes
\* ----------------------------------------------------------------------
SweepSizes == 0..MaxSweepSize

SweepHeaders ==
    { <<>>,
      <<"3">>,
      <<"1", "0", "0", "0", "0", "0", "0">>,
      <<"2", "0", "0", "0", "0", "0", "0">>,
      <<"n", "o", "t", "-", "a", "-", "n", "u", "m", "b", "e", "r">> }

SweepItems(limit) == {0, 1, limit, limit + 1}

SweepLimit == IF size > 0 THEN size ELSE PageSizeDefault

\* GetUsers never reads x-paging-request-id, so the users responses are
\* drawn without it
ResponseIds == IF coll = "users" THEN {""} ELSE SessionIds

Responses ==
    {TransportError}
        \cup {Response(h, id, n) : h \in SweepHeaders, id \in ResponseIds,
                                   n \in SweepItems(SweepLimit)}

InitSweep ==
    /\ IdleFn
    /\ IdleServed
    /\ IdleReport
    /\ coll \in {"users", "courses"}
    /\ size \in SweepSizes
    /\ tok = EmptyText
    /\ phase = "running"
    /\ reqCount = 0
    /\ last = NoCall

\* the caller's bookkeeping after a List call returned
Kept(call) ==
    /\ last' = call
    /\ tok' = call.next
    /\ reqCount' = reqCount + (IF call.sent THEN 1 ELSE 0)
    /\ phase' = IF call.err # "none" THEN "aborted"
                ELSE IF call.next = EmptyText THEN "done"
                ELSE "running"
    /\ UNCHANGED <<coll, size>>
    /\ UNCHANGED <<fnVars, rpVars>>

Returned(call) ==
    /\ Kept(call)
    /\ UNCHANGED wbVars

CoursesList ==
    /\ coll = "courses"
    /\ phase = "running"
    /\ reqCount < MaxRequests
    /\ \E resp \in Responses :
         \E conv \in Conversions("courses", resp.items) :
           Returned(CoursesListCall(PToken(tok, size), resp, conv))

UsersList ==
    /\ coll = "users"
    /\ phase = "running"
    /\ reqCount < MaxRequests
    /\ \E resp \in Responses :
         \E conv \in Conversions("users", resp.items) :
           Returned(UsersListCall(PToken(tok, size), resp, conv))

NextSweep ==
    \/ CoursesList
    \/ UsersList

SpecSweep == InitSweep /\ [][NextSweep]_vars

\* ----------------------------------------------------------------------
\* A users sweep against a server that holds srvTotal users, reports that
\* number in x-total-count on every page and returns the users at the
\* requested offset
\* ----------------------------------------------------------------------
MaxServedSize == 3

MaxServedTotal == 7

Min(a, b) == IF a < b THEN a ELSE b

Max(a, b) == IF a > b THEN a ELSE b

DigitChar(d) == CHOOSE c \in Digits : DigitVal(c) = d

\* the decimal digits the server writes into the header
RECURSIVE Itoa(_)
Itoa(n) ==
    IF n < 10 THEN <<DigitChar(n)>>
    ELSE Append(Itoa(n \div 10), DigitChar(n % 10))

ServedTotals(limit) ==
    (0..MaxServedTotal)
        \cup {p * limit + r : p \in {MaxPagesPerSync - 1, MaxPagesPerSync},
                              r \in {-1, 0, 1}}

ServedPage(offset, limit) ==
    Response(Itoa(srvTotal), "", Min(limit, Max(0, srvTotal - offset)))

InitServed ==
    /\ IdleFn
    /\ IdleReport
    /\ coll = "users"
    /\ size \in 0..MaxServedSize
    /\ srvTotal \in ServedTotals(IF size > 0 THEN size ELSE PageSizeDefault)
    /\ reqs = <<>>
    /\ tok = EmptyText
    /\ phase = "running"
    /\ reqCount = 0
    /\ last = NoCall

UsersListServed ==
    /\ phase = "running"
    /\ reqCount < MaxRequests
    /\ LET parsed == ParseSimplePaginationToken(PToken(tok, size))
           call   == UsersListCall(PToken(tok, size),
                                   ServedPage(parsed.offset, parsed.limit),
                                   "all")
       IN  /\ Kept(call)
           /\ reqs' = IF call.sent THEN Append(reqs, call.offset) ELSE reqs
           /\ UNCHANGED srvTotal

\* the caller stops calling List once it holds the empty token
SweepOver ==
    /\ phase = "done"
    /\ phase' = "over"
    /\ UNCHANGED <<coll, size, tok, reqCount, last>>
    /\ UNCHANGED <<fnVars, wbVars, rpVars>>

NextServed ==
    \/ UsersListServed
    \/ SweepOver

SpecServed == InitServed /\ [][NextServed]_vars

\* ----------------------------------------------------------------------
\* StatusesStore: Load and Get applied to drawn reports and content ids
\* ----------------------------------------------------------------------
MaxRows == 2

ContentIds == {"c1", "c2"}

UserIds == {"u1", "u2"}

\* the Status column of a report row: the two values toStatus knows and
\* two it does not
RawStatuses == {"Started", "Completed", "Expired", ""}

Row(contentUUID, userUUID, status) ==
    [ContentUUID |-> contentUUID, UserUUID |-> userUUID, Status |-> status]

Rows == {Row(c, u, s) : c \in ContentIds, u \in UserIds, s \in RawStatuses}

ReportsUpTo(n) == UNION {[1..k -> Rows] : k \in 0..n}

\* m with m[k] = v
Put(m, k, v) == [x \in DOMAIN m \cup {k} |-> IF x = k THEN v ELSE m[x]]

\* variant: a status the connector does not know is passed through
toStatus_PassThrough(status) ==
    CASE status = "Started"   -> "in_progress"
      [] status = "Completed" -> "completed"
      [] OTHER                -> status

toStatus(status) ==
    CASE status = "Started"   -> "in_progress"
      [] status = "Completed" -> "completed"
      [] OTHER                -> "unknown"

\* StatusesStore.Load: the store after the loop, and the error returned
RECURSIVE Load(_, _)
Load(r, report) ==
    IF report = <<>> THEN [store |-> r, err |-> "none"]
    ELSE LET row   == Head(report)
             found == IF row.ContentUUID \in DOMAIN r
                      THEN r[row.ContentUUID]
                      ELSE EmptyMap
         IN  Load(Put(r, row.ContentUUID,
                      Put(found, row.UserUUID, toStatus(row.Status))),
                  Tail(report))

\* variant: the lookup leaves an empty sub-map behind for an absent id
Get_CreatesSubMap(r, courseId) ==
    IF courseId \notin DOMAIN r
    THEN [store |-> Put(r, courseId, EmptyMap), found |-> EmptyMap, isNil |-> TRUE]
    ELSE [store |-> r, found |-> r[courseId], isNil |-> FALSE]

\* StatusesStore.Get: the store after the call, the mapping returned, and
\* whether that mapping is nil
Get(r, courseId) ==
    IF courseId \notin DOMAIN r
    THEN [store |-> r, found |-> EmptyMap, isNil |-> TRUE]
    ELSE [store |-> r, found |-> r[courseId], isNil |-> FALSE]

\* stores an earlier Load can have left
LoadedStores ==
    {EmptyMap,
     Load(EmptyMap, <<Row("c1", "u1", "Completed"),
                      Row("c2", "u2", "Started")>>).store}

\* content ids asked for: the ones reports name and one no report names
AskedIds == ContentIds \cup {"c9"}

NoStoreRet == [err |-> "none", found |-> EmptyMap, isNil |-> FALSE,
               before |-> EmptyMap, loads |-> 0]

InitStore ==
    /\ op = "none"
    /\ \E report \in ReportsUpTo(MaxRows) :
         \E courseId \in AskedIds :
           args = [report |-> report, courseId |-> courseId]
    /\ ret = NoStoreRet
    /\ back = NoBack
    /\ StatusesStore \in LoadedStores
    /\ ReportStatus = ZeroReportStatus
    /\ calls = [g \in Callers |-> NotCalling]
    /\ posts = [sent |-> 0, ok |-> 0]
    /\ gets = 0
    /\ lastPoll = NoPoll
    /\ done = NoDone
    /\ IdleSweep
    /\ IdleServed

CallLoad ==
    /\ ret.loads = 0
    /\ LET out == Load(StatusesStore, args.report)
       IN  /\ StatusesStore' = out.store
           /\ op' = "Load"
           /\ ret' = [ret EXCEPT !.err = out.err, !.before = StatusesStore,
                                 !.loads = 1]
    /\ UNCHANGED <<args, back>>
    /\ UNCHANGED <<ReportStatus, calls, posts, gets, lastPoll, done>>
    /\ UNCHANGED <<swVars, wbVars>>

CallGet ==
    /\ op # "Get"
    /\ LET out == Get(StatusesStore, args.courseId)
       IN  /\ StatusesStore' = out.store
           /\ op' = "Get"
           /\ ret' = [ret EXCEPT !.err = "none", !.found = out.found,
                                 !.isNil = out.isNil,
                                 !.before = StatusesStore]
    /\ UNCHANGED <<args, back>>
    /\ UNCHANGED <<ReportStatus, calls, posts, gets, lastPoll, done>>
    /\ UNCHANGED <<swVars, wbVars>>

NextStore ==
    \/ CallLoad
    \/ CallGet

SpecStore == InitStore /\ [][NextStore]_vars

\* ----------------------------------------------------------------------
\* The report job: Grants, the report-generation POST, the poll loop and
\* the load of the finished report, one step per request
\* ----------------------------------------------------------------------
\* config.RetryAttemptsMaximum
RetryAttemptsMaximum == 3

MaxGrantsCalls == 2

PollingStatuses == {"PENDING", "IN_PROGRESS"}

\* the status member of a status object, as a server can send it
ObjectStatuses == PollingStatuses \cup {"FAILED", "COMPLETED", "CANCELLED", ""}

JobIds == {"job-1", "job-2"}

\* what the report-generation POST is answered with: a transport or
\* decode error, or a ReportStatus object
PostResponses ==
    {[kind |-> "error", Id |-> "", Status |-> ""]}
        \cup {[kind |-> "ok", Id |-> id, Status |-> st] :
                id \in JobIds, st \in PollingStatuses \cup {"", "COMPLETED"}}

\* the finished reports a server sends
PolledReports ==
    { <<>>,
      <<Row("c1", "u2", "Started")>>,
      <<Row("c1", "u1", "Completed"), Row("c2", "u2", "Started"),
        Row("c1", "u1", "Expired")>> }

PollBodies ==
    {Body(w, "", "syntax", FALSE, "", <<>>) : w \in {0, 1}}
        \cup {Body(0, "{", "ok", TRUE, st, <<>>) : st \in ObjectStatuses}
        \cup {Body(1, "{", "ok", TRUE, "PENDING", <<>>),
              Body(0, "{", "ok", FALSE, "", <<>>),
              Body(0, "{", "syntax", FALSE, "", <<>>),
              Body(0, "{", "type", FALSE, "", <<>>)}
        \cup {Body(0, "[", "ok", FALSE, "", r) : r \in PolledReports}
        \cup {Body(1, "[", "ok", FALSE, "", <<Row("c1", "u2", "Started")>>),
              Body(0, "[", "syntax", FALSE, "", <<>>),
              Body(0, "[", "type", FALSE, "", <<>>)}
        \cup {Body(0, "<", "syntax", FALSE, "", <<>>),
              Body(0, "n", "ok", FALSE, "", <<>>),
              Body(0, "7", "type", FALSE, "", <<>>)}

\* what io.ReadAll is left with when the server closes the connection
\* before the announced length (io.ErrUnexpectedEOF): nothing, a report
\* whole or cut off, a status object, or other text
ShortBodies ==
    { Body(0, "", "syntax", FALSE, "", <<>>),
      Body(0, "[", "ok", FALSE, "", <<Row("c1", "u2", "Started")>>),
      Body(1, "[", "syntax", FALSE, "", <<>>),
      Body(0, "{", "ok", TRUE, "PENDING", <<>>),
      Body(0, "<", "syntax", FALSE, "", <<>>) }

\* what a report GET comes to: an error (the request failed, or reading
\* the body failed with an error other than io.ErrUnexpectedEOF), or a
\* body that was read to its end ("full") or up to an unexpected EOF
PollResponses ==
    {[kind |-> "error", read |-> r, body |-> NoBody] : r \in {"none", "error"}}
        \cup {[kind |-> "ok", read |-> "full", body |-> b] : b \in PollBodies}
        \cup {[kind |-> "ok", read |-> "eof", body |-> b] : b \in ShortBodies}

\* the resources Grants is asked about: one the reports name, one they
\* do not
GrantResources == {"c1", "c9"}

\* bytes.TrimSpace
TrimSpace(body) == [body EXCEPT !.ws = 0]

\* json.Unmarshal of a status object into a ReportStatus: members the
\* object lacks keep the value the target had
UnmarshalReportStatus(body, target) ==
    IF body.hasStatus THEN [target EXCEPT !.Status = body.status] ELSE target

\* what one pass of a poll loop comes to: "continue" (sleep, next
\* attempt), "fail" (return err) or "report" (the body is the report);
\* status is c.ReportStatus after the pass
Attempt(kind, err, status) == [kind |-> kind, err |-> err, status |-> status]

\* variant: an empty body fails the poll
pollLearningActivityReport_EmptyFails(resp, status) ==
    IF resp.kind = "error" THEN Attempt("fail", "transport", status)
    ELSE LET trimmedBody == TrimSpace(resp.body)
         IN  IF trimmedBody.first = ""
             THEN Attempt("fail", "unexpectedFormat", status)
             ELSE IF trimmedBody.first = "["
             THEN Attempt("report", "none", status)
             ELSE IF trimmedBody.first = "{"
             THEN IF trimmedBody.decode # "ok"
                  THEN Attempt("fail", "unmarshalStatus", status)
                  ELSE LET reportStatus ==
                             UnmarshalReportStatus(trimmedBody, ZeroReportStatus)
                       IN  IF reportStatus.Status \in PollingStatuses
                           THEN Attempt("continue", "none", status)
                           ELSE Attempt("fail", "reportFailed", status)
             ELSE Attempt("fail", "unexpectedFormat", status)

\* variant: an unexpected EOF while reading the body fails the poll
pollLearningActivityReport_ShortReadFails(resp, status) ==
    IF resp.kind = "error" \/ resp.read = "eof"
    THEN Attempt("fail", "transport", status)
    ELSE LET trimmedBody == TrimSpace(resp.body)
         IN  IF trimmedBody.first = ""
             THEN Attempt("continue", "none", status)
             ELSE IF trimmedBody.first = "["
             THEN Attempt("report", "none", status)
             ELSE IF trimmedBody.first = "{"
             THEN IF trimmedBody.decode # "ok"
                  THEN Attempt("fail", "unmarshalStatus", status)
                  ELSE LET reportStatus ==
                             UnmarshalReportStatus(trimmedBody, ZeroReportStatus)
                       IN  IF reportStatus.Status \in PollingStatuses
                           THEN Attempt("continue", "none", status)
                           ELSE Attempt("fail", "reportFailed", status)
             ELSE Attempt("fail", "unexpectedFormat", status)

\* Client.pollLearningActivityReport, one pass of its loop
pollLearningActivityReport(resp, status) ==
    IF resp.kind = "error" THEN Attempt("fail", "transport", status)
    ELSE LET trimmedBody == TrimSpace(resp.body)
         IN  IF trimmedBody.first = ""
             THEN Attempt("continue", "none", status)
             ELSE IF trimmedBody.first = "["
             THEN Attempt("report", "none", status)
             ELSE IF trimmedBody.first = "{"
             THEN IF trimmedBody.decode # "ok"
                  THEN Attempt("fail", "unmarshalStatus", status)
                  ELSE LET reportStatus ==
                             UnmarshalReportStatus(trimmedBody, ZeroReportStatus)
                       IN  IF reportStatus.Status \in PollingStatuses
                           THEN Attempt("continue", "none", status)
                           ELSE Attempt("fail", "reportFailed", status)
             ELSE Attempt("fail", "unexpectedFormat", status)

\* the older Client.GetLearningActivityReport, one pass of its loop: the
\* body is unmarshalled into c.ReportStatus first and as a Report only
\* when that fails with a type error
pollLegacy(resp, status) ==
    IF resp.kind = "error" THEN Attempt("fail", "transport", status)
    ELSE LET body == resp.body
         IN  IF body.decode = "syntax"
             THEN Attempt("continue", "none", status)
             ELSE IF body.first = "[" /\ body.decode = "ok"
             THEN Attempt("report", "none", status)
             ELSE IF body.decode = "type" \/ body.first = "["
             THEN Attempt("fail", "unmarshalReport", status)
             ELSE LET decoded == IF body.first = "{"
                                 THEN UnmarshalReportStatus(body, status)
                                 ELSE status
                  IN  IF decoded.Status = "FAILED"
                      THEN Attempt("fail", "reportFailed", decoded)
                      ELSE Attempt("continue", "none", decoded)
\* what a call leaves behind: its error, c.ReportStatus and c.StatusesStore
Outcome(err, status, store) == [err |-> err, status |-> status, store |-> store]

\* Client.GenerateLearningActivityReport: c.ReportStatus = target
GenerateLearningActivityReport(resp, status, store) ==
    IF resp.kind = "error" THEN Outcome("post", status, store)
    ELSE Outcome("none", [Id |-> resp.Id, Status |-> resp.Status], store)

\* variant: the report is loaded but the job is left as it was
GetLearningActivityReport_NotMarked(pass, body, store) ==
    IF pass.kind = "fail" THEN Outcome(pass.err, pass.status, store)
    ELSE IF pass.kind = "continue" THEN Outcome("timeout", pass.status, store)
    ELSE IF body.decode # "ok" THEN Outcome("unmarshalReport", pass.status, store)
    ELSE Outcome(Load(store, body.rows).err, pass.status,
                 Load(store, body.rows).store)

\* Client.GetLearningActivityReport once pollLearningActivityReport has
\* returned: with an error (a failed pass, or the loop ran out while the
\* last pass said continue), or with the body of the report
GetLearningActivityReport(pass, body, store) ==
    IF pass.kind = "fail" THEN Outcome(pass.err, pass.status, store)
    ELSE IF pass.kind = "continue" THEN Outcome("timeout", pass.status, store)
    ELSE IF body.decode # "ok" THEN Outcome("unmarshalReport", pass.status, store)
    ELSE Outcome(Load(store, body.rows).err,
                 [pass.status EXCEPT !.Status = "COMPLETED"],
                 Load(store, body.rows).store)

\* the older Client.GetLearningActivityReport once its loop is left: by a
\* return, by break with the report in target, or by the loop condition
\* with target still empty
finishLegacy(pass, body, store) ==
    IF pass.kind = "fail" THEN Outcome(pass.err, pass.status, store)
    ELSE LET target == IF pass.kind = "report" THEN body.rows ELSE <<>>
         IN  Outcome(Load(store, target).err,
                     [pass.status EXCEPT !.Status = "done"],
                     Load(store, target).store)

\* variant: every job with a status is polled
AfterGenerate_PollsAnyStatus(status) ==
    IF status.Status # "" THEN "poll" ELSE "read"

\* where Grants goes after the submission check
AfterGenerate(status) ==
    IF status.Status \in PollingStatuses THEN "poll" ELSE "read"

InitReport ==
    /\ IdleFn
    /\ IdleSweep
    /\ IdleServed
    /\ IdleReport

\* Grants returns to its caller
Return(g, err, grants, polled, pass, posted) ==
    /\ calls' = [calls EXCEPT ![g] = NotCalling]
    /\ done' = [n |-> done.n + 1, caller |-> g,
                resource |-> calls[g].resource, err |-> err,
                grants |-> grants, polled |-> polled, pass |-> pass,
                posted |-> posted, before |-> calls[g].before]

\* courseBuilder.Grants is entered while no other call is under way, and
\* tests ReportStatus.Status == ""
GrantsBegin(g) ==
    /\ \A h \in Callers : calls[h].pc = "idle"
    /\ done.n < MaxGrantsCalls
    /\ \E resource \in GrantResources :
         calls' = [calls EXCEPT ![g] =
                     [pc |-> IF ReportStatus.Status = "" THEN "post"
                             ELSE AfterGenerate(ReportStatus),
                      resource |-> resource, i |-> 0, pass |-> "none",
                      posted |-> FALSE, before |-> ReportStatus]]
    /\ UNCHANGED <<ReportStatus, StatusesStore, posts, gets, lastPoll, done>>
    /\ UNCHANGED <<fnVars, swVars, wbVars>>

\* the report-generation POST and its answer
Generate(g) ==
    /\ calls[g].pc = "post"
    /\ \E resp \in PostResponses :
         LET out == GenerateLearningActivityReport(resp, ReportStatus,
                                                   StatusesStore)
         IN  /\ posts' = [sent |-> posts.sent + 1,
                          ok   |-> posts.ok + (IF out.err = "none" THEN 1 ELSE 0)]
             /\ ReportStatus' = out.status
             /\ IF out.err = "none"
                THEN /\ calls' = [calls EXCEPT ![g].pc = AfterGenerate(out.status),
                                               ![g].posted = TRUE]
                     /\ UNCHANGED done
                ELSE Return(g, out.err, EmptyMap, 0, "none", TRUE)
    /\ UNCHANGED <<StatusesStore, gets, lastPoll>>
    /\ UNCHANGED <<fnVars, swVars, wbVars>>

\* one report GET: the pass the poller made of its answer, and what the
\* call leaves behind if the pass ends the poll
Polled(g, resp, pass, out) ==
    LET i == calls[g].i + 1
    IN  /\ gets' = gets + 1
        /\ lastPoll' = [kind |-> resp.kind, read |-> resp.read,
                        body |-> resp.body,
                        outcome |-> pass.kind, err |-> pass.err,
                        caller |-> g, i |-> i]
        /\ IF pass.kind = "continue" /\ i < RetryAttemptsMaximum
           THEN /\ ReportStatus' = pass.status
                /\ calls' = [calls EXCEPT ![g].i = i, ![g].pass = pass.kind]
                /\ UNCHANGED <<StatusesStore, done>>
           ELSE /\ ReportStatus' = out.status
                /\ StatusesStore' = out.store
                /\ IF out.err = "none"
                   THEN /\ calls' = [calls EXCEPT ![g].i = i,
                                                  ![g].pass = pass.kind,
                                                  ![g].pc = "read"]
                        /\ UNCHANGED done
                   ELSE Return(g, out.err, EmptyMap, i, pass.kind,
                               calls[g].posted)
        /\ UNCHANGED posts
        /\ UNCHANGED <<fnVars, swVars, wbVars>>

Poll(g) ==
    /\ calls[g].pc = "poll"
    /\ \E resp \in PollResponses :
         LET pass == pollLearningActivityReport(resp, ReportStatus)
         IN  Polled(g, resp, pass,
                    GetLearningActivityReport(pass, resp.body, StatusesStore))

PollLegacy(g) ==
    /\ calls[g].pc = "poll"
    /\ \E resp \in PollResponses :
         LET pass == pollLegacy(resp, ReportStatus)
         IN  Polled(g, resp, pass,
                    finishLegacy(pass, resp.body, StatusesStore))

\* Grants reads the statuses of its resource and returns the grants
GrantsRead(g) ==
    /\ calls[g].pc = "read"
    /\ LET out == Get(StatusesStore, calls[g].resource)
       IN  /\ StatusesStore' = out.store
           /\ Return(g, "none", out.found, calls[g].i, calls[g].pass,
                     calls[g].posted)
    /\ UNCHANGED <<ReportStatus, posts, gets, lastPoll>>
    /\ UNCHANGED <<fnVars, swVars, wbVars>>

SequentialCallers == {"g1"}

NextReport ==
    \E g \in SequentialCallers :
      \/ GrantsBegin(g)
      \/ Generate(g)
      \/ Poll(g)
      \/ GrantsRead(g)

SpecReport == InitReport /\ [][NextReport]_vars

NextLegacy ==
    \E g \in SequentialCallers :
      \/ GrantsBegin(g)
      \/ Generate(g)
      \/ PollLegacy(g)
      \/ GrantsRead(g)

SpecLegacy == InitReport /\ [][NextLegacy]_vars

\* ----------------------------------------------------------------------
\* The Link header and ParseLinkHeader
\* ----------------------------------------------------------------------
MaxSegments == 2

\* one  key=value  pair of a URL's query, the value as characters
QueryPair(key, value) == [key |-> key, value |-> value]

\* the URL between < and >: whether url.Parse accepts it, and its query
LinkURL(ok, query) == [ok |-> ok, query |-> query]

\* one  <url>; params  segment of a Link header, its parameters as written
Segment(url, params) == [url |-> url, params |-> params]

LinkURLs ==
    { LinkURL(FALSE, <<>>),
      LinkURL(TRUE, <<>>),
      LinkURL(TRUE, <<QueryPair("offset", Itoa(0)),
                      QueryPair("max", Itoa(1000)),
                      QueryPair("pagingRequestId", <<"i", "d">>)>>),
      LinkURL(TRUE, <<QueryPair("max", Itoa(1000)),
                      QueryPair("offset", Itoa(2000))>>),
      LinkURL(TRUE, <<QueryPair("offset", <<>>)>>),
      LinkURL(TRUE, <<QueryPair("offset", <<"1", "e", "3">>)>>),
      LinkURL(TRUE, <<QueryPair("offset", <<"-", "5">>)>>),
      LinkURL(TRUE, <<QueryPair("Offset", Itoa(7))>>),
      LinkURL(TRUE, <<QueryPair("offset", Itoa(3000)),
                      QueryPair("offset", Itoa(4000))>>) }

\* parameter lists: rel="last" alone and after other parameters, other
\* relations, the unquoted form, and none
LinkParams ==
    { <<"rel=\"last\"">>,
      <<"page=\"3\"", "per_page=\"1000\"", "rel=\"last\"">>,
      <<"page=\"1\"", "per_page=\"1000\"", "rel=\"first\"">>,
      <<"rel=\"next\"">>,
      <<"rel=last">>,
      <<>> }

Segments == {Segment(u, p) : u \in LinkURLs, p \in LinkParams}

\* response.Header.Get("link"): <<>> when absent, else its segments
LinkHeaders == UNION {[1..k -> Segments] : k \in 0..MaxSegments}

\* the segments the regexp  <([^>]+)>;\s*[^,]*rel="last"  can match
RECURSIVE FindLast(_)
FindLast(linkHeader) ==
    IF linkHeader = <<>> THEN <<>>
    ELSE IF \E i \in 1..Len(Head(linkHeader).params) :
              Head(linkHeader).params[i] = "rel=\"last\""
    THEN <<Head(linkHeader).url>>
    ELSE FindLast(Tail(linkHeader))

\* url.Values.Get(key): the first value with that key, <<>> when none
RECURSIVE QueryGet(_, _)
QueryGet(query, key) ==
    IF query = <<>> THEN <<>>
    ELSE IF Head(query).key = key THEN Head(query).value
    ELSE QueryGet(Tail(query), key)

LinkResult(finalOffset, err) == [finalOffset |-> finalOffset, err |-> err]

\* variant: the URL of the first segment is taken, whatever its relation
ParseLinkHeader_FirstSegment(linkHeader) ==
    LET matches == IF linkHeader = <<>> THEN <<>> ELSE <<Head(linkHeader).url>>
    IN  IF matches = <<>> THEN LinkResult(0, "noLast")
        ELSE LET lastURL == matches[1]
             IN  IF ~lastURL.ok THEN LinkResult(0, "badURL")
                 ELSE LET offsetStr == QueryGet(lastURL.query, "offset")
                      IN  IF offsetStr = <<>> THEN LinkResult(0, "noOffset")
                          ELSE IF Atoi(offsetStr).err
                          THEN LinkResult(0, "badOffset")
                          ELSE LinkResult(Atoi(offsetStr).n, "none")

ParseLinkHeader(linkHeader) ==
    LET matches == FindLast(linkHeader)
    IN  IF matches = <<>> THEN LinkResult(0, "noLast")
        ELSE LET lastURL == matches[1]
             IN  IF ~lastURL.ok THEN LinkResult(0, "badURL")
                 ELSE LET offsetStr == QueryGet(lastURL.query, "offset")
                      IN  IF offsetStr = <<>> THEN LinkResult(0, "noOffset")
                          ELSE IF Atoi(offsetStr).err
                          THEN LinkResult(0, "badOffset")
                          ELSE LinkResult(Atoi(offsetStr).n, "none")

InitLinkHdr ==
    /\ op = "none"
    /\ \E linkHeader \in LinkHeaders : args = [linkHeader |-> linkHeader]
    /\ ret = LinkResult(0, "none")
    /\ back = NoBack
    /\ IdleSweep
    /\ IdleServed
    /\ IdleReport

CallParseLinkHeader ==
    /\ op = "none"
    /\ op' = "ParseLinkHeader"
    /\ ret' = ParseLinkHeader(args.linkHeader)
    /\ UNCHANGED <<args, back>>
    /\ UNCHANGED <<swVars, wbVars, rpVars>>

NextLinkHdr == CallParseLinkHeader

SpecLinkHdr == InitLinkHdr /\ [][NextLinkHdr]_vars

\* ----------------------------------------------------------------------
\* The Link-header-driven pagination of pagination.go: the content token
\* carries the final offset, the users token the offset alone
\* ----------------------------------------------------------------------
\* json.Marshal(ContentPagination{Offset, PagingRequestId, FinalOffset})
MarshalContentPagination(offset, pagingRequestId, finalOffset) ==
    ObjectText(<< Member("offset", JNum(offset)),
                  Member("pagingRequestId", JStr(pagingRequestId)),
                  Member("finalOffset", JNum(finalOffset)) >>)

ZeroContentPagination ==
    [Offset |-> 0, PagingRequestId |-> "", FinalOffset |-> 0, err |-> FALSE]

RECURSIVE DecodeContentMembers(_, _)
DecodeContentMembers(ms, acc) ==
    IF ms = <<>> THEN acc
    ELSE LET m == Head(ms)
             acc2 ==
                 IF m.k = "offset"
                 THEN IF m.v.t = "num" THEN [acc EXCEPT !.Offset = m.v.n]
                      ELSE [acc EXCEPT !.err = TRUE]
                 ELSE IF m.k = "pagingRequestId"
                 THEN IF m.v.t = "str"
                      THEN [acc EXCEPT !.PagingRequestId = m.v.s]
                      ELSE [acc EXCEPT !.err = TRUE]
                 ELSE IF m.k = "finalOffset"
                 THEN IF m.v.t = "num" THEN [acc EXCEPT !.FinalOffset = m.v.n]
                      ELSE [acc EXCEPT !.err = TRUE]
                 ELSE acc
         IN  DecodeContentMembers(Tail(ms), acc2)

\* json.Unmarshal([]byte(text), &ContentPagination{})
UnmarshalContentPagination(text) ==
    IF text.kind # "object" THEN [ZeroContentPagination EXCEPT !.err = TRUE]
    ELSE DecodeContentMembers(text.members, ZeroContentPagination)

ContentParseResult(offset, id, finalOffset, err) ==
    [offset |-> offset, pagingRequestId |-> id, finalOffset |-> finalOffset,
     err |-> err]

ParseContentPaginationToken(pToken) ==
    IF ~pToken.nil /\ pToken.Token # EmptyText
    THEN LET parsed == UnmarshalContentPagination(pToken.Token)
         IN  IF parsed.err THEN ContentParseResult(0, "", 0, TRUE)
             ELSE ContentParseResult(parsed.Offset, parsed.PagingRequestId,
                                     parsed.FinalOffset, FALSE)
    ELSE ContentParseResult(0, "", 0, FALSE)

ParseUserPaginationToken(pToken) ==
    IF pToken.nil THEN ParseResult(0, PageSizeDefault, "", FALSE)
    ELSE LET limit  == IF pToken.Size > 0 THEN pToken.Size ELSE PageSizeDefault
             parsed == UnmarshalSimplePagination(pToken.Token)
         IN  IF pToken.Token # EmptyText
             THEN IF parsed.err THEN ParseResult(0, 0, "", TRUE)
                  ELSE ParseResult(parsed.Offset, limit, "", FALSE)
             ELSE ParseResult(0, limit, "", FALSE)

\* variant: the page at the final offset itself is not fetched
GetContentNextToken_StopsBeforeFinal(currentOffset, limit, finalOffset, pagingRequestId) ==
    LET nextOffset == currentOffset + limit
    IN  IF nextOffset >= finalOffset THEN EmptyText
        ELSE MarshalContentPagination(nextOffset, pagingRequestId, finalOffset)

\* variant: the next offset is one past the final offset's page
GetContentNextToken_Shifted(currentOffset, limit, finalOffset, pagingRequestId) ==
    LET nextOffset == currentOffset + limit + 1
    IN  IF nextOffset > finalOffset THEN EmptyText
        ELSE MarshalContentPagination(nextOffset, pagingRequestId, finalOffset)

GetContentNextToken(currentOffset, limit, finalOffset, pagingRequestId) ==
    LET nextOffset == currentOffset + limit
    IN  IF nextOffset > finalOffset THEN EmptyText
        ELSE MarshalContentPagination(nextOffset, pagingRequestId, finalOffset)

\* a response of the Link era: x-total-count, x-paging-request-id, the
\* number of decoded items and the Link header (<<>> = absent)
LinkTransportError ==
    [kind |-> "error", header |-> <<>>, respId |-> "", items |-> 0,
     link |-> <<>>]

LinkResponse(header, respId, items, link) ==
    [kind |-> "ok", header |-> header, respId |-> respId, items |-> items,
     link |-> link]

LinkFetchResult(items, id, finalOffset, total, err) ==
    [items |-> items, pagingRequestId |-> id, finalOffset |-> finalOffset,
     total |-> total, err |-> err]

\* getTotalCount of the Link era: strconv.Atoi of the header, nothing else
getTotalCountLink(header) ==
    LET a == Atoi(header)
    IN  IF a.err THEN CountResult(0, "invalid") ELSE CountResult(a.n, "none")

\* Client.GetUsers of the Link era
GetUsersLink(offset, limit, resp) ==
    IF resp.kind = "error" THEN LinkFetchResult(Nil, "", 0, 0, "transport")
    ELSE LET c == getTotalCountLink(resp.header)
         IN  IF c.err # "none" THEN LinkFetchResult(Nil, "", 0, 0, c.err)
             ELSE LinkFetchResult(resp.items, "", 0, c.total, "none")

\* Client.GetCourses of the Link era
GetCoursesLink(offset, limit, pagingRequestId, resp) ==
    IF resp.kind = "error" THEN LinkFetchResult(Nil, "", 0, 0, "transport")
    ELSE LET newPagingRequestId == resp.respId
             parsed == ParseLinkHeader(resp.link)
         IN  IF pagingRequestId = ""
             THEN IF resp.link # <<>>
                  THEN IF parsed.err # "none"
                       THEN LinkFetchResult(Nil, "", 0, 0, parsed.err)
                       ELSE LinkFetchResult(resp.items, newPagingRequestId,
                                            parsed.finalOffset, 0, "none")
                  ELSE LinkFetchResult(resp.items, newPagingRequestId, 0, 0,
                                       "none")
             ELSE LinkFetchResult(resp.items, newPagingRequestId, 0, 0, "none")

\* the record kept of one List call of the Link era; finalOffset is the
\* one the incoming token carried
LinkCall(offset, limit, reqId, finalOffset, sent, resp, err, resources, next) ==
    [offset |-> offset, limit |-> limit, reqId |-> reqId,
     finalOffset |-> finalOffset, sent |-> sent,
     resp |-> resp.kind, header |-> resp.header, respId |-> resp.respId,
     items |-> resp.items, link |-> resp.link, err |-> err,
     resources |-> resources, next |-> next]

\* variant: a final offset returned by a later fetch replaces the token's
CoursesLinkListCall_Overwrites(pToken, resp, conv) ==
    LET parsed == ParseContentPaginationToken(pToken)
        fetch  == GetCoursesLink(parsed.offset, PageSizeDefault,
                                 parsed.pagingRequestId, resp)
        finalOffset == IF fetch.finalOffset > 0
                       THEN fetch.finalOffset ELSE parsed.finalOffset
    IN  IF parsed.err
        THEN LinkCall(0, 0, "", 0, FALSE, LinkTransportError, "decode", Nil,
                      EmptyText)
        ELSE IF fetch.err # "none"
        THEN LinkCall(parsed.offset, PageSizeDefault, parsed.pagingRequestId,
                      parsed.finalOffset, TRUE, resp, fetch.err, Nil, EmptyText)
        ELSE IF conv = "fail"
        THEN LinkCall(parsed.offset, PageSizeDefault, parsed.pagingRequestId,
                      parsed.finalOffset, TRUE, resp, "resource", Nil, EmptyText)
        ELSE LinkCall(parsed.offset, PageSizeDefault, parsed.pagingRequestId,
                      parsed.finalOffset, TRUE, resp, "none",
                      IF conv = "skip" THEN fetch.items - 1 ELSE fetch.items,
                      GetContentNextToken(parsed.offset, PageSizeDefault,
                                          finalOffset, fetch.pagingRequestId))

\* courseBuilder.List of the Link era: the page size is the literal 1000
CoursesLinkListCall(pToken, resp, conv) ==
    LET parsed == ParseContentPaginationToken(pToken)
        fetch  == GetCoursesLink(parsed.offset, PageSizeDefault,
                                 parsed.pagingRequestId, resp)
        finalOffset == IF parsed.finalOffset = 0 /\ fetch.finalOffset > 0
                       THEN fetch.finalOffset ELSE parsed.finalOffset
    IN  IF parsed.err
        THEN LinkCall(0, 0, "", 0, FALSE, LinkTransportError, "decode", Nil,
                      EmptyText)
        ELSE IF fetch.err # "none"
        THEN LinkCall(parsed.offset, PageSizeDefault, parsed.pagingRequestId,
                      parsed.finalOffset, TRUE, resp, fetch.err, Nil, EmptyText)
        ELSE IF conv = "fail"
        THEN LinkCall(parsed.offset, PageSizeDefault, parsed.pagingRequestId,
                      parsed.finalOffset, TRUE, resp, "resource", Nil, EmptyText)
        ELSE LinkCall(parsed.offset, PageSizeDefault, parsed.pagingRequestId,
                      parsed.finalOffset, TRUE, resp, "none",
                      IF conv = "skip" THEN fetch.items - 1 ELSE fetch.items,
                      GetContentNextToken(parsed.offset, PageSizeDefault,
                                          finalOffset, fetch.pagingRequestId))

\* variant: a failed fetch still hands back a token for the next page
UsersLinkListCall_TokenOnError(pToken, resp, conv) ==
    LET parsed == ParseUserPaginationToken(pToken)
        fetch  == GetUsersLink(parsed.offset, parsed.limit, resp)
    IN  IF parsed.err
        THEN LinkCall(0, 0, "", 0, FALSE, LinkTransportError, "decode", Nil,
                      EmptyText)
        ELSE IF fetch.err # "none"
        THEN LinkCall(parsed.offset, parsed.limit, "", 0, TRUE, resp,
                      fetch.err, Nil,
                      MarshalSimplePagination(parsed.offset + parsed.limit))
        ELSE IF conv = "fail"
        THEN LinkCall(parsed.offset, parsed.limit, "", 0, TRUE, resp,
                      "resource", Nil, EmptyText)
        ELSE LinkCall(parsed.offset, parsed.limit, "", 0, TRUE, resp, "none",
                      fetch.items,
                      GetUserNextToken(parsed.offset, parsed.limit, fetch.total))

\* userBuilder.List of the Link era
UsersLinkListCall(pToken, resp, conv) ==
    LET parsed == ParseUserPaginationToken(pToken)
        fetch  == GetUsersLink(parsed.offset, parsed.limit, resp)
    IN  IF parsed.err
        THEN LinkCall(0, 0, "", 0, FALSE, LinkTransportError, "decode", Nil,
                      EmptyText)
        ELSE IF fetch.err # "none"
        THEN LinkCall(parsed.offset, parsed.limit, "", 0, TRUE, resp,
                      fetch.err, Nil, EmptyText)
        ELSE IF conv = "fail"
        THEN LinkCall(parsed.offset, parsed.limit, "", 0, TRUE, resp,
                      "resource", Nil, EmptyText)
        ELSE LinkCall(parsed.offset, parsed.limit, "", 0, TRUE, resp, "none",
                      fetch.items,
                      GetUserNextToken(parsed.offset, parsed.limit, fetch.total))

\* the Link headers a sweep's responses carry: none, one without a
\* rel="last" segment, the fixture's (last page at 2000), one whose last
\* page lies beyond a hundred pages, and one with a malformed offset
FirstSegment ==
    Segment(LinkURL(TRUE, <<QueryPair("offset", Itoa(0)),
                            QueryPair("max", Itoa(1000)),
                            QueryPair("pagingRequestId", <<"i", "d">>)>>),
            <<"page=\"1\"", "per_page=\"1000\"", "rel=\"first\"">>)

LastSegment(offsetStr) ==
    Segment(LinkURL(TRUE, <<QueryPair("max", Itoa(1000)),
                            QueryPair("offset", offsetStr)>>),
            <<"page=\"3\"", "per_page=\"1000\"", "rel=\"last\"">>)

SweepLinks ==
    { <<>>,
      <<FirstSegment>>,
      <<FirstSegment, LastSegment(Itoa(2000))>>,
      <<FirstSegment, LastSegment(Itoa(200000))>>,
      <<FirstSegment, LastSegment(<<"1", "e", "3">>)>> }

LinkResponses ==
    IF coll = "linkUsers"
    THEN {LinkTransportError}
           \cup {LinkResponse(h, "", n, <<>>) :
                   h \in SweepHeaders, n \in {0, SweepLimit}}
    ELSE {LinkTransportError}
           \cup {LinkResponse(<<>>, id, n, l) :
                   id \in SessionIds, n \in {0, PageSizeDefault},
                   l \in SweepLinks}

InitLink ==
    /\ IdleFn
    /\ IdleServed
    /\ IdleReport
    /\ \/ coll = "linkUsers" /\ size \in SweepSizes
       \/ coll = "linkCourses" /\ size = 0
    /\ tok = EmptyText
    /\ phase = "running"
    /\ reqCount = 0
    /\ last = NoCall

CoursesLinkList ==
    /\ coll = "linkCourses"
    /\ phase = "running"
    /\ reqCount < MaxRequests
    /\ \E resp \in LinkResponses :
         \E conv \in Conversions("courses", resp.items) :
           Returned(CoursesLinkListCall(PToken(tok, size), resp, conv))

UsersLinkList ==
    /\ coll = "linkUsers"
    /\ phase = "running"
    /\ reqCount < MaxRequests
    /\ \E resp \in LinkResponses :
         \E conv \in Conversions("users", resp.items) :
           Returned(UsersLinkListCall(PToken(tok, size), resp, conv))

NextLink ==
    \/ CoursesLinkList
    \/ UsersLinkList

SpecLink == InitLink /\ [][NextLink]_vars

\* ----------------------------------------------------------------------
\* List called with whatever token the caller holds: a stored or damaged
\* token as well as the empty one; the calls that follow use the token
\* each call returned
\* ----------------------------------------------------------------------
MaxResumeRequests == 2

InitResume ==
    /\ IdleFn
    /\ IdleServed
    /\ IdleReport
    /\ coll \in {"users", "courses"}
    /\ size \in SweepSizes
    /\ tok \in TokenTexts
    /\ phase = "running"
    /\ reqCount = 0
    /\ last = NoCall

CoursesResume ==
    /\ reqCount < MaxResumeRequests
    /\ CoursesList

UsersResume ==
    /\ reqCount < MaxResumeRequests
    /\ UsersList

NextResume ==
    \/ CoursesResume
    \/ UsersResume

SpecResume == InitResume /\ [][NextResume]_vars

\* ----------------------------------------------------------------------
\* Sweeps of both generations of the pagination code side by side
\* ----------------------------------------------------------------------
InitPaging == InitSweep \/ InitLink

NextPaging ==
    \/ CoursesList
    \/ UsersList
    \/ CoursesLinkList
    \/ UsersLinkList

SpecPaging == InitPaging /\ [][NextPaging]_vars

\* ======================================================================
\* Properties of the token codec and the header validators
\* ======================================================================
Generators == {"GetNextToken", "GetSimpleNextToken"}

\* what a decimal reader makes of the drawn header: a validated total, or
\* the reason it is refused
HeaderVerdict(h) ==
    IF h = <<>> THEN CountResult(0, "missing")
    ELSE IF h \in NonNumericHeaders THEN CountResult(0, "invalid")
    ELSE LET e == CHOOSE x \in NumericHeaders : x.s = h
         IN  IF e.n <= 1000000 THEN CountResult(e.n, "none")
             ELSE CountResult(0, "suspicious")

\* C2: for offset >= 0 and page size > 0, GetNextToken and
\* GetSimpleNextToken return the empty token whenever
\* (offset + pageSize) / pageSize >= 100, whatever the total.
C2_CeilingBeforeTotal ==
    ( /\ op \in Generators
      /\ args.offset >= 0
      /\ args.limit > 0
      /\ (args.offset + args.limit) \div args.limit >= 100 )
        => ret.token = EmptyText

C2_Witness ==
    /\ op = "GetNextToken"
    /\ args.offset = 99000
    /\ args.limit = 1000
    /\ args.total = 1000000
    /\ ret.token = EmptyText

\* C3: whenever offset + pageSize >= total, every next-token generator
\* (stateful and simple) returns the empty token.
C3_EmptyAtOrPastTotal ==
    ( /\ op \in Generators \cup {"GetUserNextToken"}
      /\ args.offset + args.limit >= args.total )
        => ret.token = EmptyText

C3_Witness ==
    /\ op = "GetUserNextToken"
    /\ args.offset = args.limit
    /\ args.total = args.offset + args.limit
    /\ ret.token = EmptyText

\* C4: simple round trip: with offset + pageSize < total and
\* (offset + pageSize) / pageSize < 100, GetSimpleNextToken returns a
\* non-empty token, and ParseSimplePaginationToken on it with
\* Size = pageSize returns (offset + pageSize, pageSize) without error.
C4_SimpleRoundTrip ==
    ( /\ op = "GetSimpleNextToken"
      /\ args.offset + args.limit < args.total
      /\ GoDiv(args.offset + args.limit, args.limit) < 100 )
        => /\ ret.token # EmptyText
           /\ back.done =>
                /\ ~back.parsed.err
                /\ back.parsed.offset = args.offset + args.limit
                /\ back.parsed.limit = args.limit

C4_Witness ==
    /\ op = "GetSimpleNextToken"
    /\ args.offset = 98000
    /\ args.limit = 1000
    /\ back.done
    /\ back.parsed.offset = 99000

\* C5: stateful round trip: whenever GetNextToken returns a non-empty
\* token, ParsePaginationToken on it with Size = pageSize returns exactly
\* (offset + pageSize, pageSize, sessionId), also for the empty session id.
C5_StatefulRoundTrip ==
    ( /\ op = "GetNextToken"
      /\ ret.token # EmptyText
      /\ back.done )
        => back.parsed = ParseResult(args.offset + args.limit, args.limit,
                                     args.pagingRequestId, FALSE)

C5_Witness ==
    /\ op = "GetNextToken"
    /\ back.done
    /\ args.pagingRequestId = "sid-1"
    /\ back.parsed.pagingRequestId = "sid-1"
    /\ back.parsed.offset = 1000

\* C6: a nil token or an empty token string decodes to offset 0 and the
\* empty session id; the page size is the Size hint when Size > 0 and 1000
\* otherwise, never a value from the token; a token that is not valid JSON
\* yields an error with offset 0 and page size 0.
C6_TokenDecoding ==
    LET p == args.pToken
        r == ret.parsed
    IN  op \in {"ParsePaginationToken", "ParseSimplePaginationToken"} =>
          /\ (p.nil \/ p.Token = EmptyText) =>
                (r.offset = 0 /\ r.pagingRequestId = "" /\ ~r.err)
          /\ ~r.err =>
                r.limit = IF ~p.nil /\ p.Size > 0 THEN p.Size ELSE 1000
          /\ (~p.nil /\ p.Token = InvalidText) =>
                (r.err /\ r.offset = 0 /\ r.limit = 0)

C6_Witness ==
    /\ op = "ParseSimplePaginationToken"
    /\ ~args.pToken.nil
    /\ args.pToken.Size = 250
    /\ Len(args.pToken.Token.members) = 4
    /\ ret.parsed.limit = 250
    /\ ret.parsed.offset = 500

\* C7: getTotalCount returns the header's integer when the header is
\* present, numeric and at most 1,000,000; it returns an error and total 0
\* when the header is absent, non-numeric or greater than 1,000,000.
C7_GetTotalCount ==
    op = "getTotalCount" => ret.count = HeaderVerdict(args.header)

C7_Witness ==
    /\ op = "getTotalCount"
    /\ args.header = <<"1", "0", "0", "0", "0", "0", "0">>
    /\ ret.count = CountResult(1000000, "none")

\* C8 as stated: with the header absent and itemsReturned >= pageSize the
\* estimate is offset + itemsReturned + pageSize.
C8_AsStated ==
    op = "getTotalCountForContentDiscovery" =>
        ret.count =
            IF args.header # <<>> THEN HeaderVerdict(args.header)
            ELSE IF args.items < args.limit
            THEN CountResult(args.offset + args.items, "none")
            ELSE CountResult(args.offset + args.items + args.limit, "none")

\* C8 (amended): with the header present the estimator validates it as
\* getTotalCount does; absent with itemsReturned < pageSize it returns
\* offset + itemsReturned; absent with itemsReturned >= pageSize it returns
\* offset + itemsReturned + 1000, a fixed headroom whatever the page size.
C8_EstimateTotal ==
    op = "getTotalCountForContentDiscovery" =>
        ret.count =
            IF args.header # <<>> THEN HeaderVerdict(args.header)
            ELSE IF args.items < args.limit
            THEN CountResult(args.offset + args.items, "none")
            ELSE CountResult(args.offset + args.items + 1000, "none")

C8_Witness ==
    /\ op = "getTotalCountForContentDiscovery"
    /\ args.header = <<>>
    /\ args.limit = 500
    /\ args.items = 500
    /\ args.offset = 1000
    /\ ret.count = CountResult(2500, "none")

\* ======================================================================
\* Properties of a sweep
\* ======================================================================
HeaderErrors == {"missing", "invalid", "suspicious"}

Failed(call) ==
    /\ call.err # "none"
    /\ call.resources = Nil
    /\ call.next = EmptyText

\* C1: a sweep of either collection from the empty token with one fixed
\* page size issues at most 100 page requests before the empty token or an
\* error is returned, whatever the server sends.
C1_AtMostMaxPagesPerSync ==
    /\ reqCount <= 100
    /\ reqCount = 100 => phase \in {"done", "aborted"}

C1_Witness ==
    /\ coll = "courses"
    /\ reqCount = 100
    /\ phase = "done"
    /\ last.header = <<>>
    /\ last.items = last.limit

\* C9: in the courses collection, a page response with zero items at a
\* request offset strictly below the validated or estimated total makes
\* GetCourses fail; List returns no resources and no next token.
C9_PrematureEnd ==
    ( /\ coll = "courses"
      /\ last.sent
      /\ last.resp = "ok"
      /\ last.items = 0
      /\ HeaderVerdict(last.header).err \in {"none", "missing"}
      /\ last.offset <
            (IF last.header = <<>> THEN last.offset + last.items
             ELSE HeaderVerdict(last.header).total) )
        => /\ Failed(last)
           /\ last.err \in {"prematureEnd", "sessionLost"}
           /\ phase = "aborted"

C9_Witness ==
    /\ coll = "courses"
    /\ last.err = "prematureEnd"
    /\ last.offset > 0
    /\ last.items = 0
    /\ last.total > last.offset

\* C10: in the courses collection, a request with offset > 0 and a
\* non-empty session id whose response carries no session id fails and
\* yields no next token; the check is applied neither on the first page
\* nor to a request that carried no session id.
C10_SessionLost ==
    coll = "courses" =>
      /\ ( /\ last.sent
           /\ last.resp = "ok"
           /\ last.offset > 0
           /\ last.reqId # ""
           /\ last.respId = "" )
            => /\ Failed(last)
               /\ last.err \in HeaderErrors \cup {"sessionLost"}
               /\ phase = "aborted"
      /\ last.err = "sessionLost"
            => (last.offset > 0 /\ last.reqId # "" /\ last.respId = "")

C10_Witness ==
    /\ coll = "courses"
    /\ last.err = "sessionLost"
    /\ last.reqId = "sid-2"
    /\ last.items > 0

\* the validated or estimated total of the page a courses call received,
\* worked out from the response alone
PageTotal(call) ==
    IF call.header = <<>> THEN call.offset + call.items
    ELSE HeaderVerdict(call.header).total

\* a courses page with zero items whose request offset is its total
EmptyPageAtTotal(call) ==
    /\ coll = "courses"
    /\ call.sent
    /\ call.resp = "ok"
    /\ call.items = 0
    /\ HeaderVerdict(call.header).err \in {"none", "missing"}
    /\ call.offset = PageTotal(call)

\* the session check of GetCourses applies to the call
SessionCheckApplies(call) ==
    /\ call.offset > 0
    /\ call.reqId # ""
    /\ call.respId = ""

\* C11 as stated: a page response with zero items at offset = total makes
\* GetCourses return success with an empty item list and the empty next
\* token, and is never reported as PrematureEnd.
C11_AsStated ==
    EmptyPageAtTotal(last)
        => /\ last.err = "none"
           /\ last.resources = 0
           /\ last.next = EmptyText

\* C11: a page response with zero items at offset = total is never
\* reported as PrematureEnd and yields the empty next token; GetCourses
\* returns success with an empty item list unless the session check
\* applies (offset > 0, the request carried a session id, the response
\* has none), in which case the call fails with SessionLost.
C11_EmptyFinalPage ==
    EmptyPageAtTotal(last)
        => /\ last.err # "prematureEnd"
           /\ last.next = EmptyText
           /\ IF SessionCheckApplies(last)
              THEN last.err = "sessionLost" /\ phase = "aborted"
              ELSE /\ last.err = "none"
                   /\ last.resources = 0
                   /\ phase = "done"

C11_Witness ==
    /\ coll = "courses"
    /\ last.sent
    /\ last.offset = 3
    /\ last.header = <<"3">>
    /\ last.items = 0
    /\ last.reqId = "sid-1"
    /\ last.respId = "sid-1"
    /\ last.err = "none"
    /\ phase = "done"

\* ======================================================================
\* Properties of a users sweep against a well-behaved server
\* ======================================================================
\* ceil(total / limit)
PagesOf(total, limit) == (total + limit - 1) \div limit

Normalized == {"in_progress", "completed", "unknown"}

\* the connector status of a vendor status, as the spec tabulates it
Normalize(rawStatus) ==
    IF rawStatus = "Started" THEN "in_progress"
    ELSE IF rawStatus = "Completed" THEN "completed"
    ELSE "unknown"

\* the index of the last row of the report with the ids of row i
LastRowLike(report, i) ==
    CHOOSE j \in i..Len(report) :
      /\ report[j].ContentUUID = report[i].ContentUUID
      /\ report[j].UserUUID = report[i].UserUUID
      /\ \A k \in (j + 1)..Len(report) :
           \/ report[k].ContentUUID # report[i].ContentUUID
           \/ report[k].UserUUID # report[i].UserUUID

\* what a report leaves in a store for each of its rows
HoldsReport(store, report) ==
    \A i \in 1..Len(report) :
      /\ report[i].ContentUUID \in DOMAIN store
      /\ report[i].UserUUID \in DOMAIN store[report[i].ContentUUID]
      /\ store[report[i].ContentUUID][report[i].UserUUID]
            = Normalize(report[LastRowLike(report, i)].Status)

\* C19: after StatusesStore.Load(report), for every row of the report,
\* Get(contentId)[userId] is the normalized status of the last row with
\* that content id and user id; Load returns no error, and every status
\* in the store is "in_progress", "completed" or "unknown".
C19_LoadNormalizes ==
    op = "Load"
      => /\ ret.err = "none"
         /\ HoldsReport(StatusesStore, args.report)
         /\ \A i \in 1..Len(args.report) :
              LET row == args.report[i]
              IN  Get(StatusesStore, row.ContentUUID).found[row.UserUUID]
                    = Normalize(args.report[LastRowLike(args.report, i)].Status)
         /\ \A c \in DOMAIN StatusesStore :
              \A u \in DOMAIN StatusesStore[c] :
                StatusesStore[c][u] \in Normalized

C19_Witness ==
    /\ op = "Load"
    /\ args.report = <<Row("c1", "u1", "Completed"), Row("c1", "u1", "Expired")>>
    /\ ret.before # EmptyMap
    /\ StatusesStore["c1"]["u1"] = "unknown"
    /\ StatusesStore["c2"]["u2"] = "in_progress"

\* C20: StatusesStore.Get returns a nil mapping and no error for a content
\* id with no loaded rows, and whatever its argument it leaves the store as
\* it was: no sub-map appears for an absent content id.
C20_GetIsPure ==
    op = "Get"
      => /\ StatusesStore = ret.before
         /\ ret.err = "none"
         /\ args.courseId \notin DOMAIN ret.before
              => /\ ret.isNil
                 /\ ret.found = EmptyMap
                 /\ args.courseId \notin DOMAIN StatusesStore
         /\ args.courseId \in DOMAIN ret.before
              => /\ ~ret.isNil
                 /\ ret.found = ret.before[args.courseId]

C20_Witness ==
    /\ op = "Get"
    /\ args.courseId = "c9"
    /\ ret.loads = 1
    /\ ret.isNil
    /\ DOMAIN StatusesStore = {"c1", "c2"}

\* ======================================================================
\* Properties of the report job
\* ======================================================================
NoCallUnderWay == \A g \in Callers : calls[g].pc = "idle"

\* the status a status object carries: "" when it has no status member
StatusOf(body) == IF body.hasStatus THEN body.status ELSE ""

\* the last poll was answered with a JSON object
ObjectPolled ==
    /\ lastPoll.kind = "ok"
    /\ lastPoll.body.first = "{"
    /\ lastPoll.body.decode = "ok"

\* C13: across sequential Grants calls on one client, once a
\* report-generation POST has succeeded and its job id is stored, no later
\* Grants call sends another report-generation POST, whatever status the
\* POST response or later polls carried and whether or not polling failed.
C13_SubmitsOnce ==
    [][(posts.ok >= 1 /\ ReportStatus.Id # "") => posts'.sent = posts.sent]_vars

\* C14: when a poll response body is a JSON object, the poller polls
\* again only if its status is PENDING or IN_PROGRESS; FAILED and every
\* other status, an empty or missing one included, fail the poll with an
\* error: the poll neither continues nor succeeds.
C14_FailClosed ==
    ObjectPolled
      => /\ lastPoll.outcome = "continue"
              => StatusOf(lastPoll.body) \in PollingStatuses
         /\ StatusOf(lastPoll.body) \notin PollingStatuses
              => /\ lastPoll.outcome = "fail"
                 /\ lastPoll.err # "none"
                 /\ calls[lastPoll.caller].pc # "read"
                 /\ calls[lastPoll.caller].pc = "poll"
                       => calls[lastPoll.caller].i = 0

\* C15: one poll issues at most RetryAttemptsMaximum GETs, and when every
\* one of them yields a non-terminal result the call returns the
\* polling-timed-out error: it does not return success, load a report or
\* mark the job completed.
C15_PollingBounded ==
    /\ \A g \in Callers :
         /\ calls[g].i <= RetryAttemptsMaximum
         /\ calls[g].pass = "continue"
              => (calls[g].pc = "poll" /\ calls[g].i < RetryAttemptsMaximum)
    /\ done.polled <= RetryAttemptsMaximum
    /\ done.pass = "continue"
         => /\ done.polled = RetryAttemptsMaximum
            /\ done.err = "timeout"
            /\ done.grants = EmptyMap
    /\ (done.pass = "continue" /\ NoCallUnderWay)
         => ReportStatus.Status \in PollingStatuses

\* the last poll was answered with a JSON array of report rows
ReportPolled ==
    /\ lastPoll.kind = "ok"
    /\ TrimSpace(lastPoll.body).first = "["
    /\ lastPoll.body.decode = "ok"

\* the last poll was answered with an empty or white-space-only body
EmptyPolled ==
    /\ lastPoll.kind = "ok"
    /\ TrimSpace(lastPoll.body).first = ""

\* C16: after k PENDING / IN_PROGRESS status objects, k below
\* RetryAttemptsMaximum, a JSON array of rows ends the poll at GET k + 1:
\* the call succeeds, ReportStatus is COMPLETED, and StatusesStore.Get
\* returns for every row's content id the user-id to normalized-status
\* mapping built from the rows.
C16_ReportEndsPoll ==
    ReportPolled
      => LET g == lastPoll.caller
         IN  /\ lastPoll.outcome = "report"
             /\ lastPoll.i <= RetryAttemptsMaximum
             /\ ReportStatus.Status = "COMPLETED"
             /\ HoldsReport(StatusesStore, lastPoll.body.rows)
             /\ \A i \in 1..Len(lastPoll.body.rows) :
                  LET row == lastPoll.body.rows[i]
                  IN  /\ ~Get(StatusesStore, row.ContentUUID).isNil
                      /\ row.UserUUID
                           \in DOMAIN Get(StatusesStore, row.ContentUUID).found
             /\ calls[g].pc \in {"read", "idle"}
             /\ calls[g].pc = "read"
                  => \/ calls[g].i = lastPoll.i /\ calls[g].pass = "report"
                     \/ calls[g].i = 0 /\ calls[g].pass = "none" /\ done.n > 0
             /\ calls[g].pc = "idle"
                  => /\ done.err = "none"
                     /\ done.grants = Get(StatusesStore, done.resource).found
                     /\ done.n = 1 => done.polled = lastPoll.i

C16_Witness ==
    /\ ReportPolled
    /\ NoCallUnderWay
    /\ lastPoll.i = 3
    /\ done.polled = 3
    /\ done.posted
    /\ done.err = "none"
    /\ done.resource = "c1"
    /\ Len(lastPoll.body.rows) = 3
    /\ done.grants = [u \in {"u1"} |-> "unknown"]
    /\ ReportStatus = [Id |-> "job-1", Status |-> "COMPLETED"]

\* C17: an empty or white-space-only poll response body is transient: the
\* poller sleeps and polls again without failing, and the attempt counts
\* against the same ceiling as a status response, so the poll times out
\* when it was the last attempt allowed.
C17_EmptyBodyRetries ==
    EmptyPolled
      => LET g == lastPoll.caller
         IN  /\ lastPoll.outcome = "continue"
             /\ lastPoll.err = "none"
             /\ lastPoll.i < RetryAttemptsMaximum
                  => \/ calls[g].pc = "poll" /\ calls[g].i = lastPoll.i
                     \/ calls[g].pc = "poll" /\ calls[g].i = 0 /\ done.n > 0
             /\ lastPoll.i >= RetryAttemptsMaximum
                  => /\ lastPoll.i = RetryAttemptsMaximum
                     /\ done.err = "timeout"
                     /\ done.polled = RetryAttemptsMaximum
                     /\ calls[g].pc \in {"idle", "poll"}
                     /\ calls[g].i = 0

C17_Witness ==
    /\ EmptyPolled
    /\ lastPoll.body.ws = 1
    /\ lastPoll.i = 2
    /\ calls["g1"].pc = "poll"
    /\ calls["g1"].i = 2
    /\ calls["g1"].pass = "continue"

\* C18: once ReportStatus.Status is COMPLETED, no step of a later
\* sequential Grants call sends a POST or a GET to the report endpoints,
\* and neither ReportStatus nor StatusesStore changes again.
C18_CompletedIsFinal ==
    [][ReportStatus.Status = "COMPLETED"
         => /\ ReportStatus' = ReportStatus
            /\ StatusesStore' = StatusesStore
            /\ posts' = posts
            /\ gets' = gets]_vars

C18_Witness ==
    /\ ReportStatus.Status = "COMPLETED"
    /\ NoCallUnderWay
    /\ done.n = 2
    /\ done.before = ReportStatus
    /\ done.err = "none"
    /\ ~done.posted
    /\ done.polled = 0
    /\ gets = 2
    /\ posts.sent = 1
    /\ done.grants = [u \in {"u2"} |-> "in_progress"]

\* ======================================================================
\* Properties of the Link header parser
\* ======================================================================
\* the positions of the segments tagged rel="last"
LastSegments(linkHeader) ==
    {i \in 1..Len(linkHeader) :
       \E j \in 1..Len(linkHeader[i].params) :
         linkHeader[i].params[j] = "rel=\"last\""}

\* the positions of the offset pairs in a query
OffsetPairs(query) == {i \in 1..Len(query) : query[i].key = "offset"}

IsInteger(chars) ==
    LET body == IF chars # <<>> /\ chars[1] \in {"+", "-"}
                THEN SubSeq(chars, 2, Len(chars)) ELSE chars
    IN  /\ body # <<>>
        /\ \A i \in 1..Len(body) : body[i] \in Digits

\* C21: ParseLinkHeader returns the integer value of the offset query
\* parameter of the URL in the segment tagged rel="last", not that of any
\* other segment; it returns an error when no segment is tagged
\* rel="last", when that URL has no offset parameter, and when the offset
\* is not an integer.
C21_ParseLinkHeader ==
    op = "ParseLinkHeader"
      => LET h     == args.linkHeader
             lasts == LastSegments(h)
         IN  IF lasts = {} THEN ret.err = "noLast"
             ELSE LET seg  == h[CHOOSE i \in lasts : \A j \in lasts : i <= j]
                      offs == OffsetPairs(seg.url.query)
                  IN  IF ~seg.url.ok THEN ret.err = "badURL"
                      ELSE IF offs = {} THEN ret.err = "noOffset"
                      ELSE LET v == seg.url.query[
                                      CHOOSE i \in offs : \A j \in offs : i <= j].value
                           IN  IF ~IsInteger(v) THEN ret.err # "none"
                               ELSE /\ ret.err = "none"
                                    /\ Itoa(IF ret.finalOffset < 0
                                            THEN -ret.finalOffset
                                            ELSE ret.finalOffset)
                                         = (IF v[1] \in {"+", "-"}
                                            THEN SubSeq(v, 2, Len(v)) ELSE v)
                                    /\ (ret.finalOffset < 0) => v[1] = "-"

C21_Witness ==
    /\ op = "ParseLinkHeader"
    /\ Len(args.linkHeader) = 2
    /\ args.linkHeader[1].params = <<"page=\"1\"", "per_page=\"1000\"", "rel=\"first\"">>
    /\ QueryGet(args.linkHeader[1].url.query, "offset") = <<"0">>
    /\ args.linkHeader[2].params = <<"page=\"3\"", "per_page=\"1000\"", "rel=\"last\"">>
    /\ ret = LinkResult(2000, "none")

\* ======================================================================
\* Properties of the Link-header-driven sweep and of the tokens of a sweep
\* ======================================================================
LinkColls == {"linkUsers", "linkCourses"}

\* the fields a token text decodes to
TokenOffset(text) == UnmarshalSimplePagination(text).Offset

TokenId(text) == UnmarshalPagination(text).PagingRequestId

TokenFinalOffset(text) == UnmarshalContentPagination(text).FinalOffset

\* the page size a sweep keeps
PageSizeOf(collection) ==
    IF collection = "linkCourses" THEN PageSizeDefault ELSE SweepLimit

\* C22: on the first page of a courses sweep the Link header is always
\* parsed: a first response without a rel="last" segment, a response
\* without any Link header included, fails the page fetch with the
\* no-last-link error; it does not return success with an empty token.
C22_FirstPageNeedsLastLink ==
    ( /\ coll = "linkCourses"
      /\ last.sent
      /\ last.offset = 0
      /\ last.resp = "ok"
      /\ LastSegments(last.link) = {} )
        => /\ last.err = "noLast"
           /\ last.resources = Nil
           /\ last.next = EmptyText

\* C23: a users page fetch fails, with no items and no next token, when
\* x-total-count is missing, non-numeric or above the ceiling; a courses
\* page fetch never fails for a missing header, and fails for a
\* non-numeric or over-ceiling one.
C23_HeaderErrorsByCollection ==
    (last.sent /\ last.resp = "ok") =>
        LET v == HeaderVerdict(last.header)
        IN  /\ coll = "users" =>
                 /\ v.err # "none" => (Failed(last) /\ last.err = v.err)
                 /\ last.err \in HeaderErrors => last.err = v.err
            /\ coll = "courses" =>
                 /\ last.err # "missing"
                 /\ v.err \in {"invalid", "suspicious"}
                      => (Failed(last) /\ last.err = v.err)
                 /\ last.err \in HeaderErrors => last.err = v.err

C23_Witness ==
    /\ coll = "courses"
    /\ last.sent
    /\ last.offset > 0
    /\ last.header = <<>>
    /\ last.err = "none"
    /\ last.total = last.offset + last.items + EstimateHeadroom
    /\ tok # EmptyText

\* the token List is about to be handed does not decode
Undecodable ==
    IF coll = "courses" THEN ParsePaginationToken(PToken(tok, size)).err
    ELSE ParseSimplePaginationToken(PToken(tok, size)).err

\* C24: a List call whose pagination token cannot be decoded returns the
\* decode error with no resources and an empty next token, and sends no
\* page request.
C24_DecodeErrorSendsNothing ==
    [][(last' # last)
         => /\ Undecodable <=> last'.err = "decode"
            /\ Undecodable => /\ Failed(last')
                              /\ ~last'.sent
                              /\ reqCount' = reqCount
                              /\ phase' = "aborted"]_vars

C24_Witness ==
    /\ coll = "courses"
    /\ last.err = "decode"
    /\ ~last.sent
    /\ reqCount = 0
    /\ phase = "aborted"
    /\ last.next = EmptyText

\* C25: in a courses sweep the first request carries no session id and
\* every later request carries the session id of the first response.
C25_FirstSessionIdEchoed ==
    [][(coll = "courses" /\ reqCount' = reqCount + 1)
         => IF reqCount = 0 THEN last'.reqId = ""
            ELSE IF reqCount = 1
            THEN last'.reqId = last.respId
            ELSE last'.reqId = last.reqId]_vars

\* C26: in a courses sweep no page request with offset > 0 is sent
\* without a session id, and no token with offset > 0 and an empty
\* pagingRequestId is produced.
C26_EmptyIdOnlyOnFirstPage ==
    coll = "courses" =>
        /\ (last.sent /\ last.offset > 0) => last.reqId # ""
        /\ (tok # EmptyText /\ TokenOffset(tok) > 0) => TokenId(tok) # ""

\* C27: in a sweep from the empty token with one page size P, the offset
\* of every token produced and of every page request is a non-negative
\* multiple of P.
C27_OffsetsMultipleOfPageSize ==
    LET P == PageSizeOf(coll)
    IN  /\ last.sent => (last.offset >= 0 /\ last.offset % P = 0)
        /\ tok # EmptyText
             => (TokenOffset(tok) >= 0 /\ TokenOffset(tok) % P = 0)
        /\ last.sent => last.limit = P

C27_Witness ==
    /\ coll = "linkCourses"
    /\ last.sent
    /\ last.offset = 2 * PageSizeDefault
    /\ tok # EmptyText
    /\ TokenOffset(tok) = 3 * PageSizeDefault

\* C28: in the Link-header-driven courses sweep the final offset is fixed
\* by the first page's response; every later token carries the same
\* finalOffset, whatever Link header a later response carries.
C28_FinalOffsetFixedOnce ==
    [][(coll = "linkCourses" /\ reqCount' = reqCount + 1 /\ tok' # EmptyText)
         => IF reqCount = 0
            THEN TokenFinalOffset(tok') = ParseLinkHeader(last'.link).finalOffset
            ELSE TokenFinalOffset(tok') = TokenFinalOffset(tok)]_vars

C28_Witness ==
    /\ coll = "linkCourses"
    /\ last.sent
    /\ last.offset = PageSizeDefault
    /\ last.reqId = ""
    /\ ParseLinkHeader(last.link) = LinkResult(2000, "none")
    /\ tok # EmptyText
    /\ TokenFinalOffset(tok) = 200000

\* C29: a users sweep and a courses sweep driven by the generators of
\* pagination.go stop after at most 100 pages, whatever total or
\* rel="last" offset the server reports.
C29_LinkSweepStopsAtCeiling ==
    coll \in LinkColls =>
        /\ reqCount <= MaxPagesPerSync
        /\ reqCount = MaxPagesPerSync => phase \in {"done", "aborted"}

\* C30: Grants calls that run strictly one after another never lead to a
\* second successful report-generation POST.
C30_SequentialNeverDuplicates ==
    posts.ok <= 1

\* ======================================================================
\* Properties of Grants, of the poller's reading, and of whole sweeps
\* ======================================================================
\* C31: a Grants call returns success only after the report was loaded:
\* the call itself loaded it, or the job was completed before the call
\* began; it never returns success while the job is unsubmitted, pending,
\* in progress, failed or in a status the client does not know.
C31_SuccessOnlyAfterLoad ==
    (done.n > 0 /\ done.err = "none") =>
        /\ done.pass = "report" \/ done.before.Status = "COMPLETED"
        /\ NoCallUnderWay => ReportStatus.Status = "COMPLETED"

\* C32: when GetLearningActivityReport returns an error, StatusesStore
\* and ReportStatus (job id and status) are as they were before the call,
\* so the job still stands in a status that makes the next Grants call
\* poll it again.
C32_FailedPollLeavesJob ==
    [][\A g \in Callers :
         (calls[g].pc = "poll" /\ calls'[g].pc = "idle" /\ done'.err # "none")
           => /\ StatusesStore' = StatusesStore
              /\ ReportStatus' = ReportStatus
              /\ ~calls[g].posted => ReportStatus' = calls[g].before
              /\ AfterGenerate(ReportStatus') = "poll"]_vars

\* C33: within one sweep each page request's offset is exactly one page
\* size above the offset of the request before it; no offset is
\* requested twice.
C33_OffsetsStrictlyIncrease ==
    [][(reqCount' = reqCount + 1)
         => IF reqCount = 0 THEN last'.offset = 0
            ELSE /\ last'.offset = last.offset + PageSizeOf(coll)
                 /\ last'.offset > last.offset
                 /\ last'.offset = reqCount * PageSizeOf(coll)]_vars

C33_Witness ==
    /\ coll = "courses"
    /\ reqCount = 3
    /\ last.sent
    /\ last.offset = 2 * SweepLimit
    /\ last.items = 0
    /\ last.err = "prematureEnd"

\* the final offset a Link-driven courses call works with: the token's,
\* or on the first page the one its response's Link header gives
FinalOffsetOf(call) ==
    IF call.finalOffset = 0 /\ call.reqId = ""
         /\ ParseLinkHeader(call.link).finalOffset > 0
    THEN ParseLinkHeader(call.link).finalOffset
    ELSE call.finalOffset

\* C34: in the Link-header-driven courses sweep with final offset F the
\* pages requested are those at 0, 1000, 2000, ... up to the largest
\* multiple of 1000 that is <= F: no page with offset > F is requested,
\* and the token returned for a page is empty exactly when
\* offset + 1000 > F, so the page at offset F itself is requested.
C34_PagesUpToFinalOffset ==
    (coll = "linkCourses" /\ last.sent) =>
        /\ last.offset = (reqCount - 1) * PageSizeDefault
        /\ last.offset <= FinalOffsetOf(last)
        /\ last.err = "none"
             => (last.next = EmptyText
                   <=> last.offset + PageSizeDefault > FinalOffsetOf(last))
        /\ last.next # EmptyText
             => /\ TokenOffset(last.next) = last.offset + PageSizeDefault
                /\ TokenFinalOffset(last.next) = FinalOffsetOf(last)

C34_Witness ==
    /\ coll = "linkCourses"
    /\ last.sent
    /\ last.finalOffset = 2000
    /\ last.offset = 2000
    /\ reqCount = 3
    /\ last.err = "none"
    /\ last.next = EmptyText
    /\ phase = "done"

\* C35: a courses page without a total-count header and with fewer items
\* than the page size, zero items included, ends the sweep: the estimated
\* total is offset + items, no premature-end error is raised, and the
\* next token returned for the page is empty.
C35_ShortPageEndsSweep ==
    ( /\ coll = "courses"
      /\ last.sent
      /\ last.resp = "ok"
      /\ last.header = <<>>
      /\ last.items < last.limit )
        => /\ last.total = last.offset + last.items
           /\ last.err # "prematureEnd"
           /\ last.next = EmptyText
           /\ phase \in {"done", "aborted"}

C35_Witness ==
    /\ coll = "courses"
    /\ last.sent
    /\ last.header = <<>>
    /\ last.offset = 2 * PageSizeDefault
    /\ last.items = 0
    /\ last.total = last.offset
    /\ last.err = "none"
    /\ phase = "done"

\* C36 as stated: a total that getTotalCount or
\* getTotalCountForContentDiscovery returns without error lies in
\* 0..1,000,000, and without a header is at least offset; a negative
\* header value is never accepted.
C36_AsStated ==
    ( /\ op \in {"getTotalCount", "getTotalCountForContentDiscovery"}
      /\ ret.count.err = "none" )
        => /\ ret.count.total \in 0..TotalCountCeiling
           /\ (op = "getTotalCountForContentDiscovery" /\ args.header = <<>>)
                => ret.count.total >= args.offset

\* C36 (amended): a total returned without error from a header is the
\* header's integer and at most 1,000,000, a negative integer included;
\* the estimate made without a header is at least offset and is not held
\* to the ceiling.
C36_TotalRange ==
    op \in {"getTotalCount", "getTotalCountForContentDiscovery"} =>
      /\ ( /\ args.header # <<>>
           /\ ~Atoi(args.header).err
           /\ Atoi(args.header).n <= TotalCountCeiling )
            => ret.count = CountResult(Atoi(args.header).n, "none")
      /\ ret.count.err = "none"
        => IF op = "getTotalCountForContentDiscovery" /\ args.header = <<>>
           THEN /\ ret.count.total >= args.offset
                /\ ret.count.total <= args.offset + args.items + EstimateHeadroom
           ELSE /\ ret.count.total <= TotalCountCeiling
                /\ ret.count.total = Atoi(args.header).n
                /\ (Head(args.header) = "-" /\ Atoi(args.header).n # 0)
                     => ret.count.total < 0

C36_Witness ==
    /\ op = "getTotalCount"
    /\ args.header = <<"-", "5">>
    /\ ret.count = CountResult(-5, "none")

\* the errors of a page fetch
FetchErrors ==
    HeaderErrors \cup {"transport", "sessionLost", "prematureEnd", "noLast",
                       "badURL", "noOffset", "badOffset"}

\* C37: whenever a page fetch fails (transport error, header error, lost
\* session, premature end, Link-header error), List returns the error
\* with no resources and an empty next token.
C37_FetchErrorReturnsNothing ==
    /\ last.err \in FetchErrors
         => /\ last.sent
            /\ last.resources = Nil
            /\ last.next = EmptyText
            /\ tok = EmptyText
            /\ phase = "aborted"
    /\ (last.sent /\ last.resp = "error") => last.err = "transport"

C37_Witness ==
    /\ coll = "linkCourses"
    /\ last.sent
    /\ last.offset = 0
    /\ last.items = PageSizeDefault
    /\ last.err = "noLast"
    /\ last.resources = Nil
    /\ tok = EmptyText

\* C38: the poller classifies a non-empty body by its first byte after
\* the leading white space alone: '[' ends the poll with the body as the
\* report, '{' is decoded as a status object, any other byte fails the
\* poll; a body cut off by an unexpected EOF is classified the same way.
C38_FirstByteDecides ==
    (lastPoll.kind = "ok" /\ lastPoll.body.first # "") =>
        /\ lastPoll.read \in {"full", "eof"}
        /\ lastPoll.body.first = "[" =>
             /\ lastPoll.outcome = "report"
             /\ lastPoll.err = "none"
        /\ lastPoll.body.first = "{" =>
             /\ lastPoll.outcome \in {"continue", "fail"}
             /\ lastPoll.err =
                  (IF lastPoll.body.decode # "ok" THEN "unmarshalStatus"
                   ELSE IF StatusOf(lastPoll.body) \in PollingStatuses
                   THEN "none" ELSE "reportFailed")
             /\ lastPoll.outcome = "continue" <=> lastPoll.err = "none"
        /\ lastPoll.body.first \notin {"[", "{"} =>
             /\ lastPoll.outcome = "fail"
             /\ lastPoll.err = "unexpectedFormat"

C38_Witness ==
    /\ lastPoll.kind = "ok"
    /\ lastPoll.read = "eof"
    /\ lastPoll.body.first = "["
    /\ lastPoll.body.decode = "ok"
    /\ lastPoll.outcome = "report"
    /\ NoCallUnderWay
    /\ done.err = "none"
    /\ done.grants # EmptyMap
    /\ ReportStatus.Status = "COMPLETED"

====
